---- MODULE Spec2Model ----
(***************************************************************************)
(* Timeline editing engine of the video cropper: deleted ranges, the       *)
(* selection, the collapsed-time mapping, the pointer gesture state        *)
(* machine of TimelineFrames and the per-frame playback guard.             *)
(*                                                                         *)
(* Times are integer milliseconds.  The source rounds every pointer time   *)
(* to the millisecond (Math.round(t * 1000) / 1000), so the 1e-6 s         *)
(* tolerances of normalizeDeletedRanges / expandDeletedRange are below     *)
(* the resolution: "a <= b + 1e-6" is "a <= b" and "|a - b| < 1e-6" is     *)
(* "a = b".  Pixel-to-time conversions are computed in exact rational      *)
(* arithmetic (numerator over the strip width) and rounded half-up as      *)
(* Math.round does.                                                        *)
(***************************************************************************)
EXTENDS Integers, Sequences, FiniteSets, TLC

VARIABLES
    duration,            \* TimelineFrames.duration (0 until metadata loads)
    deletedRanges,       \* TimelineFrames.deletedRanges: Seq of [start, end, expanded]
    selection,           \* appState.selectionStartSec/EndSec: <<>> or <<start, end>>
    isDragging,          \* TimelineFrames.isDragging
    isSelecting,         \* TimelineFrames.isSelecting
    isResizing,          \* TimelineFrames.isResizing
    resizingDeleted,     \* TimelineFrames.resizingDeleted
    resizeDeletedIndex,  \* TimelineFrames.resizeDeletedIndex (0-based, -1 = none)
    resizeHandle,        \* TimelineFrames.resizeHandle: "none" | "start" | "end"
    selectionAnchor,     \* TimelineFrames.selectionAnchor: <<>> or <<time>>
    listening,           \* pointermove / pointerup listeners attached to the strip
    generationPaused,    \* ThumbnailService: paused by pauseGeneration, not yet restarted
    press,               \* where the creation drag was pressed and whether it moved away
    videoTime,           \* videoElement.currentTime
    videoPaused,         \* videoElement.paused
    isPlayingVideo,      \* TimelineFrames.isPlayingVideo (the tick loop is scheduled)
    isLooping,           \* appState.isLooping
    playThroughDeleted,  \* TimelineFrames.playThroughDeleted
    tick,                \* what the playback guard did in its last run
    lastEdit,            \* what the last handler did to the deleted-range list
    steps,               \* handlers run so far in the editing session
    currentExportId,     \* ExportManager.currentExportId (0: null)
    isExporting,         \* ExportManager.isExporting
    callbacks,           \* the export whose callbacks are registered (0: all null)
    exportCount,         \* ids handed out by crypto.randomUUID() so far
    toWorker,            \* messages posted to the FFmpeg worker, not yet received
    toManager,           \* messages posted by the worker, not yet handled
    jobs,                \* the worker's processWithFFmpeg invocations
    isProcessing,        \* worker: isProcessing
    workerExportId,      \* worker: currentExportId (0: null)
    currentTargetDurationSec, \* worker: currentTargetDurationSec
    cancelled,           \* ids of the exports cancelExport has cancelled
    event,               \* what the last ExportManager operation did
    completed,           \* ids of the exports whose completion callback has run
    seekQueue,           \* ThumbnailService.seekQueue: indices of the thumbnails to capture
    serviceIsProcessing, \* ThumbnailService.isProcessing
    abortController,     \* ThumbnailService.abortController: the controller object held
    aborted,             \* the controller objects whose signal is aborted
    loops,               \* the processQueue invocations that entered their loop
    calls                \* ThumbnailService methods called so far

vars == <<duration, deletedRanges, selection, isDragging, isSelecting, isResizing,
          resizingDeleted, resizeDeletedIndex, resizeHandle, selectionAnchor,
          listening, generationPaused, press, videoTime, videoPaused, isPlayingVideo,
          isLooping, playThroughDeleted, tick, lastEdit, steps, currentExportId,
          isExporting, callbacks, exportCount, toWorker, toManager, jobs, isProcessing,
          workerExportId, currentTargetDurationSec, cancelled, event, completed, seekQueue,
          serviceIsProcessing, abortController, aborted, loops, calls>>

gestureVars == <<isDragging, isSelecting, isResizing, resizingDeleted,
                 resizeDeletedIndex, resizeHandle, selectionAnchor, listening, press>>

playVars == <<videoPaused, isPlayingVideo, isLooping, playThroughDeleted>>

managerVars == <<currentExportId, isExporting, callbacks, exportCount, cancelled, event,
                 completed>>

workerVars == <<jobs, isProcessing, workerExportId, currentTargetDurationSec>>

exportVars == <<managerVars, workerVars, toWorker, toManager>>

thumbVars == <<seekQueue, serviceIsProcessing, abortController, aborted, loops, calls>>

editVars == <<duration, deletedRanges, selection, gestureVars, generationPaused, videoTime,
              playVars, tick, lastEdit, steps>>

----------------------------------------------------------------------------
(* Bounds of the model *)

\* Duration of the loaded media, in ms.
Duration == 400
\* Math.round(rect.width) of the frame strip, in pixels.
RectWidth == 8
\* Deleting a selection is not offered once this many deleted ranges exist.
MaxRanges == 2
\* The media clock advances by at most this many ms between two frames.
MaxStep == 16
\* An editing session runs at most this many handlers.
MaxSteps == 3
\* Handlers run in a session with media reloads.
MaxReloadSteps == 2

(* Program constants, in ms or pixels *)

ResizeHandleWidth == 4
DeletedMinDur == 50
SelectionResizeMinDur == 10
MinSelectionDuration == 10
DragThreshold == 2
ApplyMinDur == 10
SkipThreshold == 5
ExitWindow == 50
SeekEpsilon == 1
BoundaryEpsilon == 5
SeekBack == 300
SafetyLimit == 100

\* Times typed into the precise start / end inputs.
ParsedTimes == {0, 30, 200, 201, Duration}

\* Edges of the deleted ranges and of the selection an editing session starts with.
InitPoints == {0, 30, 200, Duration}
InitSelectionPoints == {0, 30, 200, Duration}

\* Strip widths a pointer event can observe (0: the strip is not laid out).
Widths == {0, RectWidth}

----------------------------------------------------------------------------
(* Arithmetic helpers *)

Min(a, b) == IF a <= b THEN a ELSE b
Max(a, b) == IF a >= b THEN a ELSE b
Abs(a) == IF a >= 0 THEN a ELSE -a

\* utils.js clamp: Math.min(Math.max(value, min), max)
clamp(value, lo, hi) == Min(Max(value, lo), hi)

\* Math.round(n / d) for d > 0: rounds half up.
RoundDiv(n, d) == (2 * n + d) \div (2 * d)

Range(s, e, x) == [start |-> s, end |-> e, expanded |-> x]

\* The instants [k, k+1) covered by a list of ranges or segments.
Cells(ranges) == {k \in -DeletedMinDur .. Duration + DeletedMinDur :
                     \E i \in 1 .. Len(ranges) : ranges[i].start <= k /\ k < ranges[i].end}

\* The record of one mutation of the deleted-range list: the list before it,
\* the list handed to normalization and the interval [s, e] it was called with.
Edit(op, before, sources, s, e) ==
    [op |-> op, before |-> before, sources |-> sources, s |-> s, e |-> e]

NoEdit == Edit("none", <<>>, <<>>, 0, 0)

\* The record of the pointer-down that started a gesture: the pixel a creation
\* drag was pressed at (-1: none), whether a later pointer-move was farther
\* than the creation threshold from it, and the extent of the deleted range
\* whose edge was hit (<<>>: none).
Press(x, moved, target) == [x |-> x, moved |-> moved, target |-> target]

NoPress == Press(-1, FALSE, <<>>)

\* The record of one ExportManager operation: an exportVideo call (threw: it
\* was rejected), a cancelExport call, or a worker message handled by onmessage
\* (msg, and invoked: the export whose callback ran, 0 when none ran).
Event(op, threw, msg, invoked) ==
    [op |-> op, threw |-> threw, msg |-> msg, invoked |-> invoked]

\* A message of the worker: { type, id, message }; id 0 when the field is absent.
Message(type, id, message) == [type |-> type, id |-> id, message |-> message]

NoMessage == Message("none", 0, "")

NoEvent == Event("none", FALSE, NoMessage, 0)

----------------------------------------------------------------------------
(* Deleted-range algebra *)

\* Array.prototype.sort((a, b) => a.start - b.start): stable insertion by start.
RECURSIVE InsertByStart(_, _)
InsertByStart(r, s) ==
    IF s = <<>> THEN <<r>>
    ELSE IF r.start < Head(s).start THEN <<r>> \o s
    ELSE <<Head(s)>> \o InsertByStart(r, Tail(s))

\* A sort with the comparator reversed ((a, b) => b.start - a.start).
RECURSIVE InsertByStartDescending(_, _)
InsertByStartDescending(r, s) ==
    IF s = <<>> THEN <<r>>
    ELSE IF r.start > Head(s).start THEN <<r>> \o s
    ELSE <<Head(s)>> \o InsertByStartDescending(r, Tail(s))

RECURSIVE SortByStartDescending(_)
SortByStartDescending(s) ==
    IF s = <<>> THEN <<>>
    ELSE InsertByStartDescending(s[Len(s)], SortByStartDescending(SubSeq(s, 1, Len(s) - 1)))

RECURSIVE SortByStart(_)
SortByStart(s) ==
    IF s = <<>> THEN <<>>
    ELSE InsertByStart(s[Len(s)], SortByStart(SubSeq(s, 1, Len(s) - 1)))

\* A merge loop that joins overlapping ranges but leaves touching ones apart
\* (r.start < last.end instead of r.start <= last.end + 1e-6).
RECURSIVE MergeOverlapping(_, _)
MergeOverlapping(merged, rest) ==
    IF rest = <<>> THEN merged
    ELSE LET r == Head(rest) IN
         IF merged = <<>> THEN MergeOverlapping(<<r>>, Tail(rest))
         ELSE LET n == Len(merged)
                  last == merged[n]
              IN IF r.start < last.end
                 THEN MergeOverlapping(
                        [merged EXCEPT ![n] = Range(last.start, Max(last.end, r.end),
                                                    last.expanded /\ r.expanded)],
                        Tail(rest))
                 ELSE MergeOverlapping(Append(merged, r), Tail(rest))

\* A merge loop that gives the merged range the end of the range merged last
\* (last.end = r.end instead of Math.max(last.end, r.end)).
RECURSIVE MergeTakingLastEnd(_, _)
MergeTakingLastEnd(merged, rest) ==
    IF rest = <<>> THEN merged
    ELSE LET r == Head(rest) IN
         IF merged = <<>> THEN MergeTakingLastEnd(<<r>>, Tail(rest))
         ELSE LET n == Len(merged)
                  last == merged[n]
              IN IF r.start <= last.end
                 THEN MergeTakingLastEnd(
                        [merged EXCEPT ![n] = Range(last.start, r.end,
                                                    last.expanded /\ r.expanded)],
                        Tail(rest))
                 ELSE MergeTakingLastEnd(Append(merged, r), Tail(rest))

\* A merge loop that keeps the merged range expanded when any part was
\* (last.expanded || r.expanded).
RECURSIVE MergeKeepingExpanded(_, _)
MergeKeepingExpanded(merged, rest) ==
    IF rest = <<>> THEN merged
    ELSE LET r == Head(rest) IN
         IF merged = <<>> THEN MergeKeepingExpanded(<<r>>, Tail(rest))
         ELSE LET n == Len(merged)
                  last == merged[n]
              IN IF r.start <= last.end
                 THEN MergeKeepingExpanded(
                        [merged EXCEPT ![n] = Range(last.start, Max(last.end, r.end),
                                                    last.expanded \/ r.expanded)],
                        Tail(rest))
                 ELSE MergeKeepingExpanded(Append(merged, r), Tail(rest))

\* The merge loop of normalizeDeletedRanges.
RECURSIVE MergeRanges(_, _)
MergeRanges(merged, rest) ==
    IF rest = <<>> THEN merged
    ELSE LET r == Head(rest) IN
         IF merged = <<>> THEN MergeRanges(<<r>>, Tail(rest))
         ELSE LET n == Len(merged)
                  last == merged[n]
              IN IF r.start <= last.end
                 THEN MergeRanges(
                        [merged EXCEPT ![n] = Range(last.start, Max(last.end, r.end),
                                                    last.expanded /\ r.expanded)],
                        Tail(rest))
                 ELSE MergeRanges(Append(merged, r), Tail(rest))

normalizeDeletedRanges(dr) ==
    IF dr = <<>> THEN dr
    ELSE MergeRanges(<<>>, SortByStart(SelectSeq(dr, LAMBDA r : r.end > r.start)))

addDeletedRange(dr, range) ==
    normalizeDeletedRanges(Append(dr, Range(range.start, range.end, range.expanded)))

hasDeletedInRange(dr, startSec, endSec) ==
    LET s == Min(startSec, endSec)
        e == Max(startSec, endSec)
    IN \E i \in 1 .. Len(dr) : Max(dr[i].start, s) < Min(dr[i].end, e)

\* A restore that keeps only the left piece of a range wider than [s, e].
RestorePiecesNoSplit(r, s, e) ==
    IF Min(r.end, e) <= Max(r.start, s) THEN <<r>>
    ELSE IF s <= r.start /\ e >= r.end THEN <<>>
    ELSE IF r.start < s THEN <<Range(r.start, s, FALSE)>>
    ELSE IF r.start >= s /\ r.end > e THEN <<Range(e, r.end, FALSE)>>
    ELSE <<>>

\* What restoreDeletedInRange pushes to `next` for one range r.  The pushed
\* pieces are built without an `expanded` property, which every reader treats
\* as false.
RestorePieces(r, s, e) ==
    IF Min(r.end, e) <= Max(r.start, s) THEN <<r>>
    ELSE IF s <= r.start /\ e >= r.end THEN <<>>
    ELSE IF r.start < s /\ r.end > e
         THEN <<Range(r.start, s, FALSE), Range(e, r.end, FALSE)>>
    ELSE IF r.start < s /\ r.end <= e THEN <<Range(r.start, s, FALSE)>>
    ELSE IF r.start >= s /\ r.end > e THEN <<Range(e, r.end, FALSE)>>
    ELSE <<>>

RECURSIVE RestoreLoop(_, _, _)
RestoreLoop(dr, s, e) ==
    IF dr = <<>> THEN <<>>
    ELSE RestorePieces(Head(dr), s, e) \o RestoreLoop(Tail(dr), s, e)

\* updateDeletedOverlays / renderDeletedMarkers / generateThumbnails read the
\* collapsed mapping, whose getKeptRanges normalizes this.deletedRanges.
RenderDeleted(dr, dur) == IF dur <= 0 THEN dr ELSE normalizeDeletedRanges(dr)

restoreDeletedInRange(dr, dur, startSec, endSec) ==
    LET s == Min(startSec, endSec)
        e == Max(startSec, endSec)
    IN IF dr = <<>> \/ ~hasDeletedInRange(dr, s, e) THEN dr
       ELSE RenderDeleted(RestoreLoop(dr, s, e), dur)

SetExpanded(dr, start, end, x) ==
    [i \in 1 .. Len(dr) |->
        IF dr[i].start = start /\ dr[i].end = end
        THEN Range(dr[i].start, dr[i].end, x) ELSE dr[i]]

expandDeletedRange(dr, start, end) ==
    normalizeDeletedRanges(SetExpanded(dr, start, end, TRUE))

collapseDeletedRange(dr, start, end) ==
    normalizeDeletedRanges(SetExpanded(dr, start, end, FALSE))

isTimeInDeletedRange(dr, timeSec) ==
    \E i \in 1 .. Len(dr) : timeSec >= dr[i].start /\ timeSec < dr[i].end

\* deletedRanges.find(r => t >= r.start && t < r.end)
Covering(dr, t) ==
    dr[CHOOSE i \in 1 .. Len(dr) :
          /\ t >= dr[i].start /\ t < dr[i].end
          /\ \A j \in 1 .. i - 1 : ~(t >= dr[j].start /\ t < dr[j].end)]

RECURSIVE SkipLoop(_, _, _)
SkipLoop(dr, t, safety) ==
    IF isTimeInDeletedRange(dr, t) /\ safety < SafetyLimit
    THEN SkipLoop(dr, Covering(dr, t).end, safety + 1)
    ELSE t

getNextNonDeletedTime(dr, dur, timeSec) ==
    IF dur <= 0 THEN 0
    ELSE Min(dur, SkipLoop(dr, Max(0, Min(dur, timeSec)), 0) + SeekEpsilon)

----------------------------------------------------------------------------
(* Collapsed-time mapping.  Every operator takes the list as getKeptRanges     *)
(* leaves it, i.e. normalized; the handlers below store that list back.        *)

Seg(s, e, d) == [start |-> s, end |-> e, deleted |-> d]

\* A kept-range loop that omits the kept segment after the last deleted range.
RECURSIVE KeptLoopNoTail(_, _, _)
KeptLoopNoTail(dr, cursor, dur) ==
    IF dr = <<>> THEN <<>>
    ELSE LET r == Head(dr)
             rest == KeptLoopNoTail(Tail(dr), Max(cursor, r.end), dur)
         IN IF r.start > cursor THEN <<Seg(cursor, r.start, FALSE)>> \o rest ELSE rest

RECURSIVE KeptLoop(_, _, _)
KeptLoop(dr, cursor, dur) ==
    IF dr = <<>>
    THEN IF dur > cursor THEN <<Seg(cursor, dur, FALSE)>> ELSE <<>>
    ELSE LET r == Head(dr)
             rest == KeptLoop(Tail(dr), Max(cursor, r.end), dur)
         IN IF r.start > cursor THEN <<Seg(cursor, r.start, FALSE)>> \o rest ELSE rest

getKeptRanges(dr, dur) == KeptLoop(normalizeDeletedRanges(dr), 0, dur)

RECURSIVE MergeSegs(_, _)
MergeSegs(merged, rest) ==
    IF rest = <<>> THEN merged
    ELSE LET seg == Head(rest) IN
         IF merged = <<>> THEN MergeSegs(<<seg>>, Tail(rest))
         ELSE LET n == Len(merged)
                  last == merged[n]
              IN IF seg.deleted = last.deleted /\ seg.start <= last.end
                 THEN MergeSegs([merged EXCEPT ![n].end = Max(last.end, seg.end)],
                                Tail(rest))
                 ELSE MergeSegs(Append(merged, seg), Tail(rest))

\* A variant that shows every deleted range, collapsed ones included.
getVisibleRangesShowingAll(dr, dur) ==
    LET n == normalizeDeletedRanges(dr)
        kept == KeptLoop(n, 0, dur)
        expandedDeleted == [i \in 1 .. Len(n) |-> Seg(n[i].start, n[i].end, TRUE)]
    IN MergeSegs(<<>>, SortByStart(kept \o expandedDeleted))

getVisibleRanges(dr, dur) ==
    LET n == normalizeDeletedRanges(dr)
        kept == KeptLoop(n, 0, dur)
        x == SelectSeq(n, LAMBDA r : r.expanded)
        expandedDeleted == [i \in 1 .. Len(x) |-> Seg(x[i].start, x[i].end, TRUE)]
    IN MergeSegs(<<>>, SortByStart(kept \o expandedDeleted))

RECURSIVE SumWidths(_)
SumWidths(segs) ==
    IF segs = <<>> THEN 0
    ELSE (Head(segs).end - Head(segs).start) + SumWidths(Tail(segs))

\* A variant that counts the kept ranges only.
getCollapsedDurationOfKept(dr, dur) == SumWidths(getKeptRanges(dr, dur))

getCollapsedDuration(dr, dur) == SumWidths(getVisibleRanges(dr, dur))

\* The accumulation loop of getCollapsedPercentForTime: collapsed ms before `time`.
RECURSIVE CollapsedTimeLoop(_, _)
CollapsedTimeLoop(vis, time) ==
    IF vis = <<>> THEN 0
    ELSE LET seg == Head(vis) IN
         IF time >= seg.end THEN (seg.end - seg.start) + CollapsedTimeLoop(Tail(vis), time)
         ELSE IF time > seg.start THEN time - seg.start
         ELSE 0

\* getCollapsedPercentForTime(time) / 100 as <<numerator, denominator>>, over
\* the visible segments vis.
PercentOf(vis, time) ==
    LET total == SumWidths(vis) IN
    IF total <= 0 THEN <<0, 1>>
    ELSE <<clamp(CollapsedTimeLoop(vis, time), 0, total), total>>

getCollapsedPercentForTime(dr, dur, time) == PercentOf(getVisibleRanges(dr, dur), time)

\* Math.round(getCollapsedPercentForTime(time) / 100 * rectWidth)
HandleX(vis, time, w) ==
    LET pct == PercentOf(vis, time)
    IN RoundDiv(pct[1] * w, pct[2])

\* A walk that leaves a segment already at its end (t < acc + segDur instead
\* of t <= acc + segDur).
RECURSIVE TimeLoopStrict(_, _, _, _, _)
TimeLoopStrict(vis, t, acc, d, dur) ==
    IF vis = <<>> THEN dur * d
    ELSE LET seg == Head(vis)
             segDur == seg.end - seg.start
         IN IF t < (acc + segDur) * d
            THEN seg.start * d + Max(0, t - acc * d)
            ELSE TimeLoopStrict(Tail(vis), t, acc + segDur, d, dur)

\* The walk of getTimeForCollapsedTime for the collapsed time t / d; the result
\* times d.
RECURSIVE TimeLoop(_, _, _, _, _)
TimeLoop(vis, t, acc, d, dur) ==
    IF vis = <<>> THEN dur * d
    ELSE LET seg == Head(vis)
             segDur == seg.end - seg.start
         IN IF t <= (acc + segDur) * d
            THEN seg.start * d + Max(0, t - acc * d)
            ELSE TimeLoop(Tail(vis), t, acc + segDur, d, dur)

\* getTimeForCollapsedTime(n / d) times d, over the visible segments vis.
TimeOfCollapsed(vis, dur, n, d) ==
    TimeLoop(vis, Max(0, Min(SumWidths(vis) * d, n)), 0, d, dur)

getTimeForCollapsedTime(dr, dur, n, d) == TimeOfCollapsed(getVisibleRanges(dr, dur), dur, n, d)

\* getTimeForCollapsedPercent(percent) times d, for percent / 100 = n / d.
TimeOfPercent(vis, dur, n, d) ==
    LET total == SumWidths(vis) IN
    IF total <= 0 THEN 0
    ELSE TimeOfCollapsed(vis, dur, clamp(n, 0, d) * total, d)

getTimeForCollapsedPercent(dr, dur, n, d) == TimeOfPercent(getVisibleRanges(dr, dur), dur, n, d)

\* Math.round(getTimeForCollapsedPercent(clamp(x / rectWidth, 0, 1) * 100) * 1000) / 1000
PointerTime(vis, dur, x, w) == RoundDiv(TimeOfPercent(vis, dur, x, w), w)

----------------------------------------------------------------------------
(* Hit tests of handlePointerDown *)

NoHandle == [index |-> -1, edge |-> "none"]

getResizeHandle(vis, dur, sel, x, w) ==
    IF sel = <<>> \/ dur <= 0 \/ w <= 0 THEN "none"
    ELSE IF 2 * Abs(x - HandleX(vis, sel[1], w)) <= ResizeHandleWidth THEN "start"
    ELSE IF 2 * Abs(x - HandleX(vis, sel[2], w)) <= ResizeHandleWidth THEN "end"
    ELSE "none"

\* A loop body that tests the edges of collapsed ranges too.
EdgeHitOfAnyRange(vis, r, x, w) ==
    IF 2 * Abs(x - HandleX(vis, r.start, w)) <= ResizeHandleWidth THEN "start"
    ELSE IF 2 * Abs(x - HandleX(vis, r.end, w)) <= ResizeHandleWidth THEN "end"
    ELSE "none"

\* The verdict of the loop body of getDeletedResizeHandle for the range r.
EdgeHit(vis, r, x, w) ==
    IF ~r.expanded THEN "none"
    ELSE IF 2 * Abs(x - HandleX(vis, r.start, w)) <= ResizeHandleWidth THEN "start"
    ELSE IF 2 * Abs(x - HandleX(vis, r.end, w)) <= ResizeHandleWidth THEN "end"
    ELSE "none"

getDeletedResizeHandle(dr, vis, dur, x, w) ==
    IF dr = <<>> \/ dur <= 0 \/ w <= 0 THEN NoHandle
    ELSE LET hits == {i \in 1 .. Len(dr) : EdgeHit(vis, dr[i], x, w) # "none"} IN
         IF hits = {} THEN NoHandle
         ELSE LET i == CHOOSE k \in hits : \A j \in hits : k <= j
              IN [index |-> i - 1, edge |-> EdgeHit(vis, dr[i], x, w)]

\* The in-place edit of the dragged deleted range (handlePointerMove 603-611,
\* handlePointerUp 680-688); idx is 0-based as in the source.
ResizeDeletedEdge(dr, dur, idx, handle, currentTime) ==
    IF idx >= 0 /\ idx < Len(dr)
    THEN LET r == dr[idx + 1] IN
         IF handle = "start"
         THEN [dr EXCEPT ![idx + 1].start = clamp(currentTime, 0, r.end - DeletedMinDur)]
         ELSE IF handle = "end"
         THEN [dr EXCEPT ![idx + 1].end = clamp(currentTime, r.start + DeletedMinDur, dur)]
         ELSE dr
    ELSE dr

\* videoPlayer.seekTo: currentTime = Math.max(0, Math.min(time, duration))
seekTo(time, dur) == Max(0, Min(time, dur))

\* handleSeek: clamps, then seeks the video (on the next animation frame).
handleSeek(seekTime, dur) == seekTo(clamp(seekTime, 0, dur), dur)

\* appState.setSelection: orders the two edges.
setSelection(startSec, endSec) == <<Min(startSec, endSec), Max(startSec, endSec)>>

\* The record of one run of the playback guard: what it read (t, the flags,
\* the selection and the ranges) and what it commanded.
NoTick == [ran |-> FALSE, t |-> 0, playing |-> FALSE, flag |-> FALSE, looping |-> FALSE,
           sel |-> <<>>, ranges |-> <<>>, seeks |-> <<>>, paused |-> FALSE,
           flagAfter |-> FALSE, final |-> 0]

----------------------------------------------------------------------------
(* Initial states: the state after construction (no media), and sessions   *)
(* in which media is loaded and earlier edits have left deleted ranges and *)
(* a selection behind.                                                     *)

Idle ==
    /\ isDragging = FALSE
    /\ isSelecting = FALSE
    /\ isResizing = FALSE
    /\ resizingDeleted = FALSE
    /\ resizeDeletedIndex = -1
    /\ resizeHandle = "none"
    /\ selectionAnchor = <<>>
    /\ listening = FALSE

\* ExportManager.constructor and the module state of the worker.
NoExport ==
    /\ currentExportId = 0
    /\ isExporting = FALSE
    /\ callbacks = 0
    /\ exportCount = 0
    /\ toWorker = <<>>
    /\ toManager = <<>>
    /\ jobs = <<>>
    /\ isProcessing = FALSE
    /\ workerExportId = 0
    /\ currentTargetDurationSec = 0
    /\ cancelled = {}
    /\ completed = {}
    /\ event = NoEvent

\* ThumbnailService after initialize(file): nothing queued, no loop running,
\* a first AbortController in place.
ServiceInitialized ==
    /\ seekQueue = <<>>
    /\ serviceIsProcessing = FALSE
    /\ abortController = 1
    /\ aborted = {}
    /\ loops = <<>>
    /\ calls = 0

Stopped ==
    /\ videoTime = 0
    /\ videoPaused = TRUE
    /\ isPlayingVideo = FALSE
    /\ generationPaused = FALSE
    /\ press = NoPress
    /\ playThroughDeleted = FALSE
    /\ tick = NoTick
    /\ lastEdit = NoEdit
    /\ steps = 0

\* Normalized lists of at most MaxRanges ranges with edges in pts.
RangeLists(pts) ==
    LET one == {Range(a, b, x) : a \in pts, b \in pts, x \in BOOLEAN}
        ok == {r \in one : r.start < r.end}
    IN {<<>>} \cup {<<r>> : r \in ok}
       \cup (IF MaxRanges >= 2
             THEN {p \in ok \X ok : p[2].start > p[1].end}
             ELSE {})

\* Selections appState can hold: ordered, at least ApplyMinDur long.
Selections(pts) ==
    {<<>>} \cup {p \in pts \X pts : p[2] >= p[1] + ApplyMinDur}

InitConstructed ==
    /\ duration = 0
    /\ deletedRanges = <<>>
    /\ selection = <<>>
    /\ isLooping = FALSE
    /\ Idle
    /\ Stopped
    /\ ServiceInitialized
    /\ NoExport

InitEdited ==
    /\ duration = Duration
    /\ deletedRanges \in RangeLists(InitPoints)
    /\ selection \in Selections(InitSelectionPoints)
    /\ isLooping = FALSE
    /\ Idle
    /\ Stopped
    /\ ServiceInitialized
    /\ NoExport

Init == InitConstructed \/ InitEdited

\* 'videoMetadata' subscription: the duration becomes known.
LoadMedia ==
    /\ duration = 0
    /\ duration' = Duration
    /\ deletedRanges' = RenderDeleted(deletedRanges, Duration)
    /\ videoTime' = 0
    /\ generationPaused' = FALSE
    /\ lastEdit' = NoEdit
    /\ UNCHANGED <<selection, gestureVars, playVars, tick>>

\* Durations of the media files the user can load.
MediaDurations == {Duration \div 2, Duration}

\* A file loaded over the current one: VideoPlayer.loadFile pauses and clears
\* the source, the 'file' subscription only re-initializes the thumbnail
\* service, and the 'videoMetadata' subscription stores the new duration and
\* re-renders.
ReloadMedia ==
    /\ duration > 0
    /\ \E d \in MediaDurations :
          /\ duration' = d
          /\ deletedRanges' = RenderDeleted(deletedRanges, d)
    /\ videoTime' = 0
    /\ videoPaused' = TRUE
    /\ generationPaused' = FALSE
    /\ lastEdit' = NoEdit
    /\ UNCHANGED <<selection, gestureVars, isPlayingVideo, isLooping, playThroughDeleted,
                   tick>>

----------------------------------------------------------------------------
(* Pointer gestures on the frame strip *)

\* The extent of the range hit at pointer-down after one in-place edit and the
\* re-render: the range of the new list that covers what the hit range has
\* become (the edited extent when the edit was applied to it).
TargetAfter(target, before, edited, after) ==
    LET at == {i \in 1 .. Len(before) : <<before[i].start, before[i].end>> = target}
        now == IF at = {} THEN target
               ELSE LET i == CHOOSE k \in at : TRUE IN <<edited[i].start, edited[i].end>>
        covers == {j \in 1 .. Len(after) : after[j].start <= now[1] /\ now[2] <= after[j].end}
    IN IF target = <<>> \/ covers = {} THEN target
       ELSE LET j == CHOOSE k \in covers : TRUE IN <<after[j].start, after[j].end>>

handlePointerDown(x, w) ==
    /\ duration > 0
    /\ w > 0
    /\ x \in 0 .. w
    /\ LET dr == normalizeDeletedRanges(deletedRanges)
           vis == getVisibleRanges(dr, duration)
           clickTime == PointerTime(vis, duration, x, w)
           selHandle == getResizeHandle(vis, duration, selection, x, w)
           delHandle == getDeletedResizeHandle(dr, vis, duration, x, w)
       IN /\ deletedRanges' = dr
          /\ IF selHandle # "none"
             THEN /\ isResizing' = TRUE
                  /\ resizingDeleted' = FALSE
                  /\ resizeHandle' = selHandle
                  /\ listening' = TRUE
                  /\ UNCHANGED <<isDragging, resizeDeletedIndex, selectionAnchor, videoTime,
                                 generationPaused, press>>
             ELSE IF delHandle.edge # "none"
             THEN /\ isResizing' = TRUE
                  /\ resizingDeleted' = TRUE
                  /\ resizeDeletedIndex' = delHandle.index
                  /\ resizeHandle' = delHandle.edge
                  /\ listening' = TRUE
                  /\ press' = [press EXCEPT !.target = <<dr[delHandle.index + 1].start,
                                                         dr[delHandle.index + 1].end>>]
                  /\ UNCHANGED <<isDragging, selectionAnchor, videoTime, generationPaused>>
             ELSE IF selection # <<>> /\ clickTime >= selection[1] /\ clickTime <= selection[2]
             THEN /\ videoTime' = handleSeek(clickTime, duration)
                  /\ generationPaused' = (isDragging \/ generationPaused)
                  /\ UNCHANGED <<isDragging, isResizing, resizingDeleted, resizeDeletedIndex,
                                 resizeHandle, selectionAnchor, listening, press>>
             ELSE /\ isDragging' = TRUE
                  /\ selectionAnchor' = <<clickTime>>
                  /\ listening' = TRUE
                  /\ videoTime' = handleSeek(clickTime, duration)
                  /\ generationPaused' = TRUE
                  /\ press' = [press EXCEPT !.x = x, !.moved = FALSE]
                  /\ UNCHANGED <<isResizing, resizingDeleted, resizeDeletedIndex, resizeHandle>>
    /\ lastEdit' = NoEdit
    /\ UNCHANGED <<duration, selection, isSelecting, playVars, tick>>

handlePointerMove(x, w) ==
    /\ listening
    /\ isDragging \/ isResizing
    /\ w > 0
    /\ x \in 0 .. w
    /\ LET dr == normalizeDeletedRanges(deletedRanges)
           currentTime == PointerTime(getVisibleRanges(dr, duration), duration, x, w)
           anchor == IF selectionAnchor = <<>> THEN 0 ELSE selectionAnchor[1]
       IN IF isResizing
          THEN /\ IF resizingDeleted /\ resizeDeletedIndex >= 0
                                       /\ resizeDeletedIndex < Len(dr)
                  THEN LET edited == ResizeDeletedEdge(dr, duration, resizeDeletedIndex,
                                                       resizeHandle, currentTime)
                       IN /\ deletedRanges' = RenderDeleted(edited, duration)
                          /\ lastEdit' = Edit("resize", dr, edited, currentTime, currentTime)
                          /\ press' = [press EXCEPT !.target =
                                           TargetAfter(@, dr, edited, deletedRanges')]
                  ELSE /\ deletedRanges' = dr
                       /\ lastEdit' = NoEdit
                       /\ UNCHANGED press
               /\ UNCHANGED isSelecting
          ELSE /\ deletedRanges' = dr
               /\ lastEdit' = NoEdit
               /\ isSelecting' = IF Abs(x * duration - anchor * w) > DragThreshold * duration
                                 THEN TRUE ELSE isSelecting
               /\ press' = [press EXCEPT !.moved = @ \/ (press.x >= 0
                                              /\ Abs(x - press.x) > DragThreshold)]
    /\ UNCHANGED <<duration, selection, isDragging, isResizing, resizingDeleted,
                   resizeDeletedIndex, resizeHandle, selectionAnchor, listening,
                   generationPaused, videoTime, playVars, tick>>

handlePointerUp(x, w) ==
    /\ listening
    /\ isDragging \/ isResizing
    /\ x \in 0 .. Max(w, 0)
    /\ isDragging' = FALSE
    /\ listening' = FALSE
    /\ press' = NoPress
    /\ LET dr == normalizeDeletedRanges(deletedRanges)
           currentTime == PointerTime(getVisibleRanges(dr, duration), duration, x, w)
       IN IF isResizing /\ resizeHandle # "none"
          THEN IF w <= 0
               THEN /\ lastEdit' = NoEdit
                    /\ UNCHANGED <<deletedRanges, selection, isSelecting, isResizing,
                                   resizingDeleted, resizeDeletedIndex, resizeHandle,
                                   selectionAnchor, videoTime, generationPaused>>
               ELSE /\ IF ~resizingDeleted
                       THEN LET selStart == IF selection = <<>> THEN 0 ELSE selection[1]
                                selEnd == IF selection = <<>> THEN 0 ELSE selection[2]
                                newStartSec == IF resizeHandle = "start"
                                               THEN clamp(currentTime, 0,
                                                          selEnd - SelectionResizeMinDur)
                                               ELSE selStart
                                newEndSec == IF resizeHandle = "end"
                                             THEN clamp(currentTime,
                                                        selStart + SelectionResizeMinDur,
                                                        duration)
                                             ELSE selEnd
                            IN /\ selection' = IF selection = <<>> THEN <<>>
                                               ELSE setSelection(newStartSec, newEndSec)
                               /\ videoTime' = handleSeek(newStartSec, duration)
                               /\ deletedRanges' = dr
                               /\ lastEdit' = NoEdit
                       ELSE /\ IF resizeDeletedIndex >= 0 /\ resizeDeletedIndex < Len(dr)
                               THEN LET edited == ResizeDeletedEdge(dr, duration,
                                                      resizeDeletedIndex, resizeHandle,
                                                      currentTime)
                                    IN /\ deletedRanges' = RenderDeleted(
                                              normalizeDeletedRanges(edited), duration)
                                       /\ lastEdit' = Edit("resize", dr, edited,
                                                           currentTime, currentTime)
                               ELSE /\ deletedRanges' = dr
                                    /\ lastEdit' = NoEdit
                            /\ UNCHANGED <<selection, videoTime>>
                    /\ isResizing' = FALSE
                    /\ resizingDeleted' = FALSE
                    /\ resizeDeletedIndex' = -1
                    /\ resizeHandle' = "none"
                    /\ isSelecting' = FALSE
                    /\ selectionAnchor' = <<>>
                    /\ generationPaused' = FALSE
          ELSE IF isSelecting /\ selectionAnchor # <<>>
          THEN IF w <= 0
               THEN /\ lastEdit' = NoEdit
                    /\ UNCHANGED <<deletedRanges, selection, isSelecting, isResizing,
                                   resizingDeleted, resizeDeletedIndex, resizeHandle,
                                   selectionAnchor, videoTime, generationPaused>>
               ELSE LET endTime == RoundDiv(x * duration, w)
                        startSec == Min(selectionAnchor[1], endTime)
                        endSec == Max(selectionAnchor[1], endTime)
                    IN /\ IF Abs(endSec - startSec) >= MinSelectionDuration
                          THEN /\ selection' = setSelection(clamp(startSec, 0, duration),
                                                            clamp(endSec, 0, duration))
                               /\ videoTime' = handleSeek(clamp(startSec, 0, duration),
                                                          duration)
                               /\ deletedRanges' = dr
                          ELSE UNCHANGED <<deletedRanges, selection, videoTime>>
                       /\ lastEdit' = NoEdit
                       /\ isSelecting' = FALSE
                       /\ selectionAnchor' = <<>>
                       /\ generationPaused' = FALSE
                       /\ UNCHANGED <<isResizing, resizingDeleted, resizeDeletedIndex,
                                      resizeHandle>>
          ELSE /\ isSelecting' = FALSE
               /\ selectionAnchor' = <<>>
               /\ generationPaused' = FALSE
               /\ lastEdit' = NoEdit
               /\ UNCHANGED <<deletedRanges, selection, isResizing, resizingDeleted,
                              resizeDeletedIndex, resizeHandle, videoTime>>
    /\ UNCHANGED <<duration, playVars, tick>>

PointerDown == \E x \in 0 .. RectWidth : handlePointerDown(x, RectWidth)
PointerMove == \E x \in 0 .. RectWidth : handlePointerMove(x, RectWidth)
PointerUp == \E w \in Widths : \E x \in 0 .. w : handlePointerUp(x, w)

----------------------------------------------------------------------------
(* Editing commands *)

\* appState.deleteSelection publishes 'selectionDeleted' with the current
\* selection; whether it also clears the selection is left open.
deleteSelectionOutcomes(sel) == {sel, <<>>}

\* A 'selectionDeleted' subscription that hands the published interval to
\* addDeletedRange as it is, without clamping it to the media.
OnSelectionDeletedUnclamped(dr, dur, startSec, endSec) ==
    IF dur > 0 /\ endSec > startSec
    THEN RenderDeleted(addDeletedRange(dr, Range(startSec, endSec, FALSE)), dur)
    ELSE dr

\* 'selectionDeleted' subscription of TimelineFrames: the stored list after
\* clamping, addDeletedRange and the re-render.
OnSelectionDeleted(dr, dur, startSec, endSec) ==
    LET start == Max(0, Min(dur, startSec))
        end == Max(0, Min(dur, endSec))
    IN IF dur > 0 /\ end > start
       THEN RenderDeleted(addDeletedRange(dr, Range(start, end, FALSE)), dur)
       ELSE dr

\* Delete key / delete button, then both 'selectionDeleted' subscribers:
\* TimelineFrames adds the range, App pauses and seeks past it.
DeleteSelection ==
    /\ selection # <<>>
    /\ Len(deletedRanges) < MaxRanges
    /\ deletedRanges' = OnSelectionDeleted(deletedRanges, duration, selection[1], selection[2])
    /\ videoPaused' = TRUE
    /\ videoTime' = seekTo(getNextNonDeletedTime(deletedRanges', duration,
                                                Max(0, selection[2])), duration)
    /\ selection' \in deleteSelectionOutcomes(selection)
    /\ generationPaused' = IF duration > 0 /\ Min(duration, selection[2]) > Max(0, selection[1])
                           THEN FALSE ELSE generationPaused
    /\ lastEdit' = LET start == Max(0, Min(duration, selection[1]))
                       end == Max(0, Min(duration, selection[2]))
                   IN IF duration > 0 /\ end > start
                      THEN Edit("add", deletedRanges,
                                Append(deletedRanges, Range(start, end, FALSE)), start, end)
                      ELSE NoEdit
    /\ UNCHANGED <<duration, gestureVars, isPlayingVideo, isLooping, playThroughDeleted, tick>>

\* Restore button: restoreDeletedInRange over the current selection.
RestoreSelection ==
    /\ selection # <<>>
    /\ ~listening
    /\ hasDeletedInRange(deletedRanges, selection[1], selection[2])
    /\ deletedRanges' = restoreDeletedInRange(deletedRanges, duration,
                                              selection[1], selection[2])
    /\ lastEdit' = Edit("restore", deletedRanges, <<>>, selection[1], selection[2])
    /\ generationPaused' = FALSE
    /\ UNCHANGED <<duration, selection, gestureVars, videoTime, playVars, tick>>

\* Pointer-down on the marker of a collapsed range.
ExpandMarker ==
    /\ ~listening
    /\ \E i \in 1 .. Len(deletedRanges) :
          /\ ~deletedRanges[i].expanded
          /\ deletedRanges' = RenderDeleted(expandDeletedRange(deletedRanges,
                                  deletedRanges[i].start, deletedRanges[i].end), duration)
    /\ generationPaused' = (duration <= 0 /\ generationPaused)
    /\ lastEdit' = NoEdit
    /\ UNCHANGED <<duration, selection, gestureVars, videoTime, playVars, tick>>

\* Pointer-down on the collapse marker of an expanded range.
CollapseMarker ==
    /\ ~listening
    /\ \E i \in 1 .. Len(deletedRanges) :
          /\ deletedRanges[i].expanded
          /\ deletedRanges' = RenderDeleted(collapseDeletedRange(deletedRanges,
                                  deletedRanges[i].start, deletedRanges[i].end), duration)
    /\ generationPaused' = (duration <= 0 /\ generationPaused)
    /\ lastEdit' = NoEdit
    /\ UNCHANGED <<duration, selection, gestureVars, videoTime, playVars, tick>>

\* Precise start edit (applyStart).
ApplyStart ==
    /\ selection # <<>>
    /\ ~listening
    /\ \E parsed \in ParsedTimes :
          selection' = setSelection(Max(0, Min(parsed, selection[2] - ApplyMinDur)),
                                    selection[2])
    /\ lastEdit' = NoEdit
    /\ UNCHANGED <<duration, deletedRanges, gestureVars, generationPaused, videoTime,
                   playVars, tick>>

\* Precise end edit (applyEnd); videoPlayer.getDuration() || Infinity.
ApplyEnd ==
    /\ selection # <<>>
    /\ ~listening
    /\ \E parsed \in ParsedTimes :
          selection' = setSelection(selection[1],
                           LET newEnd == Max(parsed, selection[1] + ApplyMinDur)
                           IN IF duration > 0 THEN Min(duration, newEnd) ELSE newEnd)
    /\ lastEdit' = NoEdit
    /\ UNCHANGED <<duration, deletedRanges, gestureVars, generationPaused, videoTime,
                   playVars, tick>>

\* Escape key / clear button.
ClearSelection ==
    /\ selection # <<>>
    /\ selection' = <<>>
    /\ lastEdit' = NoEdit
    /\ UNCHANGED <<duration, deletedRanges, gestureVars, generationPaused, videoTime,
                   playVars, tick>>

Handler ==
    \/ LoadMedia
    \/ PointerDown
    \/ PointerMove
    \/ PointerUp
    \/ DeleteSelection
    \/ RestoreSelection
    \/ ExpandMarker
    \/ CollapseMarker
    \/ ApplyStart
    \/ ApplyEnd
    \/ ClearSelection

Next ==
    /\ steps < MaxSteps
    /\ steps' = steps + 1
    /\ Handler
    /\ UNCHANGED <<exportVars, thumbVars>>

Spec == Init /\ [][Next]_vars

\* Editing sessions in which another file may be loaded over the current one.
NextReload ==
    /\ steps < MaxReloadSteps
    /\ steps' = steps + 1
    /\ (Handler \/ ReloadMedia)
    /\ UNCHANGED <<exportVars, thumbVars>>

SpecReload == Init /\ [][NextReload]_vars

----------------------------------------------------------------------------
(* Playback guard *)

\* videoPlayer.isPlaying(): !paused && !ended
isPlaying(paused, time, dur) == ~paused /\ time < dur

Command(by, to) == [by |-> by, to |-> to]

\* A boundary check that lets the tick at exactly selection.end - epsilon pass
\* (currentTime > selectionEndSec - 0.005).
checkSelectionBoundaryLate(playing, sel, looping, currentTime) ==
    IF ~playing THEN [seeks |-> <<>>, pause |-> FALSE]
    ELSE IF sel # <<>> /\ currentTime > sel[2] - BoundaryEpsilon
    THEN IF looping
         THEN [seeks |-> <<Command("selection", sel[1])>>, pause |-> FALSE]
         ELSE [seeks |-> <<Command("selection", Max(sel[1], sel[2] - SeekBack))>>,
               pause |-> TRUE]
    ELSE [seeks |-> <<>>, pause |-> FALSE]

\* checkSelectionBoundaryUltraPrecise: the seek it commands (if any) and
\* whether it pauses the video.
checkSelectionBoundaryUltraPrecise(playing, sel, looping, currentTime) ==
    IF ~playing THEN [seeks |-> <<>>, pause |-> FALSE]
    ELSE IF sel # <<>> /\ currentTime >= sel[2] - BoundaryEpsilon
    THEN IF looping
         THEN [seeks |-> <<Command("selection", sel[1])>>, pause |-> FALSE]
         ELSE [seeks |-> <<Command("selection", Max(sel[1], sel[2] - SeekBack))>>,
               pause |-> TRUE]
    ELSE [seeks |-> <<>>, pause |-> FALSE]

\* The deleted-range loop of smoothUpdateLoop over the ranges still to visit:
\* the skip seek it commands (if any) and the value it leaves in
\* playThroughDeleted.
RECURSIVE SkipDeleted(_, _, _, _, _)
SkipDeleted(rest, dr, dur, t, flag) ==
    IF rest = <<>> THEN [seeks |-> <<>>, flag |-> flag]
    ELSE LET r == Head(rest) IN
         IF t >= r.start - SkipThreshold /\ t < r.end
         THEN IF flag THEN [seeks |-> <<>>, flag |-> flag]
              ELSE [seeks |-> <<Command("deleted", getNextNonDeletedTime(dr, dur, r.end))>>,
                    flag |-> flag]
         ELSE IF flag /\ t >= r.end /\ t < r.end + ExitWindow
         THEN SkipDeleted(Tail(rest), dr, dur, t, FALSE)
         ELSE SkipDeleted(Tail(rest), dr, dur, t, flag)

\* One run of smoothUpdateLoop reading the media time t.
smoothUpdateLoop(t) ==
    LET playing == isPlaying(videoPaused, t, duration)
        boundary == checkSelectionBoundaryUltraPrecise(playing, selection, isLooping, t)
        skip == SkipDeleted(deletedRanges, deletedRanges, duration, t, playThroughDeleted)
        seeks == boundary.seeks \o skip.seeks
        final == IF seeks = <<>> THEN t ELSE seekTo(seeks[Len(seeks)].to, duration)
    IN /\ videoTime' = final
       /\ videoPaused' = (videoPaused \/ boundary.pause)
       /\ playThroughDeleted' = skip.flag
       /\ tick' = [ran |-> TRUE, t |-> t, playing |-> playing, flag |-> playThroughDeleted,
                   looping |-> isLooping, sel |-> selection, ranges |-> deletedRanges,
                   seeks |-> seeks, paused |-> boundary.pause, flagAfter |-> skip.flag,
                   final |-> final]

\* A display frame while the loop is scheduled: the media clock has advanced
\* by d ms since the previous frame (not at all while the video is paused).
Tick ==
    /\ isPlayingVideo
    /\ \E d \in 0 .. MaxStep :
          /\ isPlaying(videoPaused, videoTime, duration) \/ d = 0
          /\ smoothUpdateLoop(Min(duration, videoTime + d))
    /\ UNCHANGED <<duration, deletedRanges, selection, gestureVars, generationPaused,
                   isPlayingVideo, isLooping, steps, lastEdit>>

\* 'play' event: appState.isPlaying becomes true and startSmoothUpdates runs
\* the loop once at once.
HandlePlay ==
    /\ ~isPlayingVideo
    /\ ~videoPaused
    /\ isPlayingVideo' = TRUE
    /\ generationPaused' = TRUE
    /\ smoothUpdateLoop(videoTime)
    /\ UNCHANGED <<duration, deletedRanges, selection, gestureVars, isLooping, steps, lastEdit>>

\* 'pause' event: appState.isPlaying becomes false and the loop stops.
HandlePause ==
    /\ isPlayingVideo
    /\ videoPaused
    /\ isPlayingVideo' = FALSE
    /\ generationPaused' = FALSE
    /\ tick' = NoTick
    /\ UNCHANGED <<duration, deletedRanges, selection, gestureVars, videoTime, videoPaused,
                   isLooping, playThroughDeleted, steps, lastEdit>>

\* 'ended' event (VideoPlayer.handleEnded).
HandleEnded ==
    /\ ~videoPaused
    /\ duration > 0
    /\ videoTime >= duration
    /\ IF isLooping
       THEN /\ videoTime' = seekTo(0, duration)
            /\ UNCHANGED <<videoPaused, isPlayingVideo, generationPaused>>
       ELSE /\ videoTime' = seekTo(Max(0, videoTime - SeekBack), duration)
            /\ videoPaused' = TRUE
            /\ isPlayingVideo' = FALSE
            /\ generationPaused' = FALSE
    /\ tick' = NoTick
    /\ UNCHANGED <<duration, deletedRanges, selection, gestureVars, isLooping,
                   playThroughDeleted, steps, lastEdit>>

\* Play / pause button.
PlayPauseClick ==
    /\ duration > 0
    /\ IF isPlayingVideo
       THEN /\ videoPaused' = TRUE
            /\ UNCHANGED playThroughDeleted
       ELSE /\ playThroughDeleted' = IF isTimeInDeletedRange(deletedRanges, videoTime)
                                     THEN TRUE ELSE playThroughDeleted
            /\ videoPaused' = FALSE
    /\ tick' = NoTick
    /\ UNCHANGED <<duration, deletedRanges, selection, gestureVars, generationPaused,
                   videoTime, isPlayingVideo, isLooping, steps, lastEdit>>

\* Seek-to-beginning button (VideoPlayer.seekToBeginning).
SeekBeginning ==
    /\ duration > 0
    /\ videoTime' = seekTo(IF selection # <<>> THEN selection[1] ELSE 0, duration)
    /\ tick' = NoTick
    /\ UNCHANGED <<duration, deletedRanges, selection, gestureVars, generationPaused,
                   playVars, steps, lastEdit>>

\* Seek-to-end button (VideoPlayer.seekToEnd).
SeekEnd ==
    /\ duration > 0
    /\ videoTime' = seekTo(IF selection # <<>> THEN selection[2] ELSE duration, duration)
    /\ tick' = NoTick
    /\ UNCHANGED <<duration, deletedRanges, selection, gestureVars, generationPaused,
                   playVars, steps, lastEdit>>

\* Loop button.
ToggleLoop ==
    /\ isLooping' = ~isLooping
    /\ UNCHANGED <<duration, deletedRanges, selection, gestureVars, generationPaused,
                   videoTime, videoPaused, isPlayingVideo, playThroughDeleted, tick, steps,
                   lastEdit>>

\* Playback sessions: media loaded, deleted ranges and a selection in place.
PlayRangeLists ==
    { <<>>,
      <<Range(100, 200, FALSE)>>,
      <<Range(100, 200, TRUE), Range(201, 300, FALSE)>>,
      <<Range(100, 200, FALSE), Range(350, Duration, TRUE)>> }

PlaySelections == { <<>>, <<0, 100>>, <<50, 380>> }

InitPlay ==
    /\ duration = Duration
    /\ deletedRanges \in PlayRangeLists
    /\ selection \in PlaySelections
    /\ isLooping \in BOOLEAN
    /\ Idle
    /\ Stopped
    /\ ServiceInitialized
    /\ NoExport

NextPlay ==
    \/ PlayPauseClick /\ UNCHANGED <<exportVars, thumbVars>>
    \/ HandlePlay /\ UNCHANGED <<exportVars, thumbVars>>
    \/ HandlePause /\ UNCHANGED <<exportVars, thumbVars>>
    \/ HandleEnded /\ UNCHANGED <<exportVars, thumbVars>>
    \/ Tick /\ UNCHANGED <<exportVars, thumbVars>>
    \/ SeekBeginning /\ UNCHANGED <<exportVars, thumbVars>>
    \/ SeekEnd /\ UNCHANGED <<exportVars, thumbVars>>
    \/ ToggleLoop /\ UNCHANGED <<exportVars, thumbVars>>
    \/ RestoreSelection /\ UNCHANGED <<steps, exportVars, thumbVars>>

SpecPlay == InitPlay /\ [][NextPlay]_vars

----------------------------------------------------------------------------
(* Export: the ExportManager on the main thread, the FFmpeg worker and the *)
(* two message channels between them.  Descriptor times are written in ms, *)
(* the unit of the timeline model.  Exports are routed to the FFmpeg       *)
(* worker (files below maxFFmpegFileSize, forceWebCodecs unset).           *)

\* Exports a session starts.
MaxExports == 2
\* Log / progress reports of the encoder that can be waiting in the channel.
MaxReports == 1
\* Entries of a descriptor handed to the worker directly.
MaxEntries == 2

\* One entry { startSec, endSec } of operations.deletedRanges.
Entry(s, e) == [startSec |-> s, endSec |-> e]

\* The operation descriptor: cut (<<>>: absent), deletedRanges (<<>>: absent)
\* and crop (TRUE: a crop with its normalized rectangle and source size).
Descriptor(cut, deleted, crop) == [cut |-> cut, deletedRanges |-> deleted, crop |-> crop]

\* A descriptor without crop.
Operations(cut, deleted) == Descriptor(cut, deleted, FALSE)

\* ExportManager.getCurrentOperations: the cut from the selection (the crop
\* rectangle is not part of the editing model).
getCurrentOperations(sel) == Operations(sel, <<>>)

\* A message to the worker: { type, id, operations, preset, durationSec };
\* durationSec -1 when the field is absent, preset the name in preset.video.
PresetRequest(type, id, operations, durationSec, preset) ==
    [type |-> type, id |-> id, operations |-> operations, durationSec |-> durationSec,
     preset |-> preset]

\* A message with the preset of getDefaultPreset.
Request(type, id, operations, durationSec) ==
    PresetRequest(type, id, operations, durationSec, "medium")

\* setupWorkerListeners: "if (id && id !== this.currentExportId) return".
Ignores(id, current) == id # 0 /\ id # current

\* The windows { s, e } of buildSkipFilter / buildSkipFilterVideoOnly.
RECURSIVE SkipWindows(_)
SkipWindows(deleted) ==
    IF deleted = <<>> THEN <<>>
    ELSE LET r == [s |-> Max(0, Head(deleted).startSec), e |-> Max(0, Head(deleted).endSec)]
         IN IF r.e > r.s THEN <<r>> \o SkipWindows(Tail(deleted))
            ELSE SkipWindows(Tail(deleted))

\* The filter graph: the select expression not(between(t,s,e)+...) on the
\* video stream, and on the audio stream when withAudio.
Filter(windows, withAudio) == [windows |-> windows, withAudio |-> withAudio]

buildSkipFilter(deleted) == Filter(SkipWindows(deleted), TRUE)

buildSkipFilterVideoOnly(deleted) == Filter(SkipWindows(deleted), FALSE)

\* ffmpeg's between(t, s, e): s <= t <= e.
between(t, s, e) == s <= t /\ t <= e

\* The select expression of a filter at instant t: 1 (keep) or 0 (drop).
Selects(filter, t) ==
    ~\E i \in 1 .. Len(filter.windows) : between(t, filter.windows[i].s, filter.windows[i].e)

\* sort((a, b) => a.s - b.s) of computeKeptFromDeleted.
RECURSIVE InsertByS(_, _)
InsertByS(r, sorted) ==
    IF sorted = <<>> THEN <<r>>
    ELSE IF r.s < Head(sorted).s THEN <<r>> \o sorted
    ELSE <<Head(sorted)>> \o InsertByS(r, Tail(sorted))

RECURSIVE SortByS(_)
SortByS(w) ==
    IF w = <<>> THEN <<>>
    ELSE InsertByS(w[Len(w)], SortByS(SubSeq(w, 1, Len(w) - 1)))

\* The merge loop of computeKeptFromDeleted.
RECURSIVE MergeWindows(_, _)
MergeWindows(merged, rest) ==
    IF rest = <<>> THEN merged
    ELSE LET r == Head(rest) IN
         IF merged = <<>> THEN MergeWindows(<<r>>, Tail(rest))
         ELSE LET last == merged[Len(merged)] IN
              IF r.s <= last.e
              THEN MergeWindows([merged EXCEPT ![Len(merged)].e = Max(last.e, r.e)],
                                Tail(rest))
              ELSE MergeWindows(Append(merged, r), Tail(rest))

\* The complement loop of computeKeptFromDeleted and its tail segment.
RECURSIVE KeptFromMerged(_, _, _)
KeptFromMerged(merged, cursor, d) ==
    IF merged = <<>>
    THEN IF d # 0 /\ d > cursor THEN <<[s |-> cursor, e |-> d]>> ELSE <<>>
    ELSE LET r == Head(merged)
             before == IF r.s > cursor THEN <<[s |-> cursor, e |-> r.s]>> ELSE <<>>
         IN before \o KeptFromMerged(Tail(merged), Max(cursor, r.e), d)

computeKeptFromDeleted(deleted, fullDuration) ==
    LET d == IF fullDuration >= 0 THEN fullDuration ELSE 0
    IN KeptFromMerged(MergeWindows(<<>>, SortByS(SkipWindows(deleted))), 0, d)

\* kept.reduce((acc, seg) => acc + Math.max(0, seg.e - seg.s), 0)
RECURSIVE KeptTotal(_)
KeptTotal(kept) ==
    IF kept = <<>> THEN 0
    ELSE Max(0, Head(kept).e - Head(kept).s) + KeptTotal(Tail(kept))

\* One run of ffmpeg.exec: the filter it was given and whether it succeeded.
Exec(filter, ok) == [filter |-> filter, ok |-> ok]

\* One invocation of processWithFFmpeg: the request, the await it is at, the
\* kept segments it computed, the encoder runs it has made and the argument
\* list of the last encoder command it built.
Job(id, operations, durationSec, preset, pc, kept, execs, args) ==
    [id |-> id, operations |-> operations, durationSec |-> durationSec,
     preset |-> preset, pc |-> pc, kept |-> kept, execs |-> execs, args |-> args]

hasCut(operations) == operations.cut # <<>>

hasCrop(operations) == operations.crop

\* currentTargetDurationSec as set before the deleted-ranges branch
\* (processWithFFmpeg 84-96).
TargetBeforeSkip(job, target) ==
    IF hasCut(job.operations)
    THEN Max(0, job.operations.cut[2] - job.operations.cut[1])
    ELSE IF job.durationSec >= 0 THEN job.durationSec
    ELSE IF ~hasCrop(job.operations) THEN target
    ELSE 0

\* One option of the encoder command with its value; the output file is the
\* value of a positional argument (opt "").
Arg(opt, val) == [opt |-> opt, val |-> val]

inputName == "input.mp4"

outputName == "output.mp4"

\* buildFilterGraph: the crop filter when a crop is given, then the two
\* normalizing filters.
buildFilterGraph(crop) ==
    (IF crop THEN <<"crop">> ELSE <<>>) \o <<"setsar=1", "format=yuv420p">>

\* What the choice of the target duration appends to the arguments
\* (processWithFFmpeg 84-96): the stream copy of the "no edits" branch.
NoEditsArgs(job) ==
    IF ~hasCut(job.operations) /\ job.durationSec < 0 /\ ~hasCrop(job.operations)
    THEN <<Arg("-i", inputName), Arg("-c", "copy"), Arg("", outputName)>>
    ELSE <<>>

\* The trim of the cut: "-ss" start and "-t" length.
TrimStart(cut) == Arg("-ss", cut[1])

TrimLength(cut) == Arg("-t", Max(0, cut[2] - cut[1]))

\* The arguments of the first encoder command (processWithFFmpeg 79-155).
CommandArgs(job) ==
    LET ops == job.operations IN
    NoEditsArgs(job) \o
    (IF Len(ops.deletedRanges) > 0
     THEN <<Arg("-i", inputName),
            Arg("-filter_complex", buildSkipFilter(ops.deletedRanges)),
            Arg("-preset", job.preset), Arg("", outputName)>>
     ELSE IF hasCut(ops) /\ ~hasCrop(ops) /\ job.preset = "copy"
     THEN <<TrimStart(ops.cut), Arg("-i", inputName), TrimLength(ops.cut),
            Arg("-c", "copy"), Arg("", outputName)>>
     ELSE <<Arg("-i", inputName)>>
          \o (IF hasCut(ops) THEN <<TrimStart(ops.cut), TrimLength(ops.cut)>> ELSE <<>>)
          \o <<Arg("-vf", buildFilterGraph(ops.crop)), Arg("-preset", job.preset),
               Arg("", outputName)>>)

\* The arguments of the retry (processWithFFmpeg 163-179).
RetryArgs(job) ==
    <<Arg("-i", inputName),
      Arg("-filter_complex", buildSkipFilterVideoOnly(job.operations.deletedRanges)),
      Arg("-preset", job.preset), Arg("-an", ""), Arg("", outputName)>>

\* A variant of the catch block of ffmpeg.exec that gives up at once.
OnExecErrorNoRetry(job) == "failed"

\* The catch block of ffmpeg.exec: retry with the video-only filter when the
\* request has deleted ranges, fail otherwise.
OnExecError(job) ==
    IF Len(job.operations.deletedRanges) > 0 THEN "retry" ELSE "failed"

(* ExportManager *)

\* The message handler with the id check left out.
onmessageUnchecked(m) ==
    /\ UNCHANGED <<currentExportId, callbacks>>
    /\ isExporting' = IF m.type \in {"complete", "error"} THEN FALSE ELSE isExporting
    /\ completed' = IF m.type = "complete" /\ callbacks # 0
                    THEN completed \cup {callbacks} ELSE completed
    /\ event' = Event("message", FALSE, m,
                      IF m.type \in {"progress", "status", "complete", "error"}
                      THEN callbacks ELSE 0)

\* worker.onmessage of setupWorkerListeners for the message m.
onmessage(m) ==
    /\ UNCHANGED <<currentExportId, callbacks>>
    /\ IF Ignores(m.id, currentExportId)
       THEN /\ event' = Event("message", FALSE, m, 0)
            /\ UNCHANGED <<isExporting, completed>>
       ELSE /\ isExporting' = IF m.type \in {"complete", "error"} THEN FALSE
                              ELSE isExporting
            /\ completed' = IF m.type = "complete" /\ callbacks # 0
                            THEN completed \cup {callbacks} ELSE completed
            /\ event' = Event("message", FALSE, m,
                              IF m.type \in {"progress", "status", "complete", "error"}
                              THEN callbacks ELSE 0)

\* exportVideo without the check of isExporting.
exportVideoUnguarded ==
    IF duration = 0
    THEN /\ event' = Event("exportVideo", TRUE, NoMessage, 0)
         /\ UNCHANGED <<currentExportId, isExporting, callbacks, exportCount, toWorker>>
    ELSE /\ isExporting' = TRUE
         /\ exportCount' = exportCount + 1
         /\ currentExportId' = exportCount + 1
         /\ callbacks' = exportCount + 1
         /\ toWorker' = Append(toWorker, Request("export", exportCount + 1,
                                                 getCurrentOperations(selection), -1))
         /\ event' = Event("exportVideo", FALSE, NoMessage, 0)

\* ExportManager.exportVideo with exportWithFFmpeg.  appState holds a file
\* exactly when the media duration is known; the id of crypto.randomUUID() is
\* the number of the export.
exportVideo ==
    IF isExporting \/ duration = 0
    THEN /\ event' = Event("exportVideo", TRUE, NoMessage, 0)
         /\ UNCHANGED <<currentExportId, isExporting, callbacks, exportCount, toWorker>>
    ELSE /\ isExporting' = TRUE
         /\ exportCount' = exportCount + 1
         /\ currentExportId' = exportCount + 1
         /\ callbacks' = exportCount + 1
         /\ toWorker' = Append(toWorker, Request("export", exportCount + 1,
                                                 getCurrentOperations(selection), -1))
         /\ event' = Event("exportVideo", FALSE, NoMessage, 0)

\* The export button of the export dialog.
ExportVideo ==
    /\ exportCount < MaxExports
    /\ exportVideo
    /\ UNCHANGED <<cancelled, completed, toManager, workerVars, editVars, thumbVars>>

\* ExportManager.cancelExport (a no-op unless an export is in progress).
CancelExport ==
    /\ isExporting
    /\ isExporting' = FALSE
    /\ currentExportId' = 0
    /\ callbacks' = 0
    /\ cancelled' = cancelled \cup {currentExportId}
    /\ toWorker' = Append(toWorker, Request("cleanup", 0, Operations(<<>>, <<>>), -1))
    /\ event' = Event("cancelExport", FALSE, NoMessage, 0)
    /\ UNCHANGED <<exportCount, completed, toManager, workerVars, editVars, thumbVars>>

\* The types of message a worker posts.
MessageTypes == {"progress", "status", "complete", "error", "support-check"}

\* A message of any type, tagged with any id or none, reaches the manager.
Receive ==
    /\ \E type \in MessageTypes, id \in 0 .. MaxExports : onmessage(Message(type, id, ""))
    /\ UNCHANGED <<exportCount, cancelled, toWorker, toManager, workerVars, editVars, thumbVars>>

\* A message of the worker reaches the main thread.
Deliver ==
    /\ toManager # <<>>
    /\ onmessage(Head(toManager))
    /\ toManager' = Tail(toManager)
    /\ UNCHANGED <<exportCount, cancelled, toWorker, workerVars, editVars, thumbVars>>

(* FFmpeg worker.  Of the awaited calls only ffmpeg.exec is taken to fail.   *)

\* self.onmessage, case 'export', up to the first await of processWithFFmpeg.
WorkerExport ==
    /\ toWorker # <<>>
    /\ Head(toWorker).type = "export"
    /\ LET m == Head(toWorker) IN
          /\ jobs' = Append(jobs, Job(m.id, m.operations, m.durationSec, m.preset,
                                           "load", <<>>, <<>>, <<>>))
          /\ workerExportId' = m.id
          /\ toManager' = Append(toManager, Message("status", m.id, "Loading FFmpeg core..."))
    /\ isProcessing' = TRUE
    /\ toWorker' = Tail(toWorker)
    /\ UNCHANGED <<currentTargetDurationSec, managerVars, editVars, thumbVars>>

\* self.onmessage, case 'cleanup'.
WorkerCleanup ==
    /\ toWorker # <<>>
    /\ Head(toWorker).type = "cleanup"
    /\ isProcessing' = FALSE
    /\ toManager' = Append(toManager, Message("status", 0, "Cleanup completed"))
    /\ toWorker' = Tail(toWorker)
    /\ UNCHANGED <<jobs, workerExportId, currentTargetDurationSec, managerVars, editVars, thumbVars>>

\* processWithFFmpeg after getFFmpeg(): 'Preparing input...', writeFile.
WorkerPrepare(i) ==
    /\ jobs[i].pc = "load"
    /\ jobs' = [jobs EXCEPT ![i].pc = "write"]
    /\ toManager' = Append(toManager, Message("status", jobs[i].id, "Preparing input..."))
    /\ UNCHANGED <<isProcessing, workerExportId, currentTargetDurationSec, toWorker,
                   managerVars, editVars, thumbVars>>

\* processWithFFmpeg after writeFile: the arguments are built and the encoder
\* is started, or the job throws 'No content to export after deletions'.
WorkerBuild(i) ==
    /\ jobs[i].pc = "write"
    /\ LET job == jobs[i]
           deleted == job.operations.deletedRanges
           kept == computeKeptFromDeleted(deleted, job.durationSec)
       IN IF Len(deleted) > 0
          THEN /\ currentTargetDurationSec' = KeptTotal(kept)
               /\ IF kept = <<>>
                  THEN /\ jobs' = [jobs EXCEPT ![i].pc = "failed", ![i].kept = kept]
                       /\ toManager' = Append(toManager,
                              Message("error", job.id, "No content to export after deletions"))
                  ELSE /\ jobs' = [jobs EXCEPT ![i].pc = "exec", ![i].kept = kept,
                                      ![i].execs = <<Exec(buildSkipFilter(deleted), FALSE)>>,
                                      ![i].args = CommandArgs(job)]
                       /\ toManager' = Append(toManager,
                              Message("status", job.id, "Encoding with FFmpeg..."))
          ELSE /\ currentTargetDurationSec' = TargetBeforeSkip(job, currentTargetDurationSec)
               /\ jobs' = [jobs EXCEPT ![i].pc = "exec",
                              ![i].execs = <<Exec(Filter(<<>>, TRUE), FALSE)>>,
                              ![i].args = CommandArgs(job)]
               /\ toManager' = Append(toManager,
                      Message("status", job.id, "Encoding with FFmpeg..."))
    /\ UNCHANGED <<isProcessing, workerExportId, toWorker, managerVars, editVars, thumbVars>>

\* The first ffmpeg.exec settles.
WorkerExec(i) ==
    /\ jobs[i].pc = "exec"
    /\ \E ok \in BOOLEAN :
          IF ok
          THEN /\ jobs' = [jobs EXCEPT ![i].pc = "read", ![i].execs[1].ok = TRUE]
               /\ UNCHANGED <<toManager, currentTargetDurationSec>>
          ELSE IF OnExecError(jobs[i]) = "retry"
          THEN /\ jobs' = [jobs EXCEPT ![i].pc = "retry",
                              ![i].execs = Append(@, Exec(buildSkipFilterVideoOnly(
                                               jobs[i].operations.deletedRanges), FALSE)),
                              ![i].args = RetryArgs(jobs[i])]
               /\ currentTargetDurationSec' = KeptTotal(computeKeptFromDeleted(
                                    jobs[i].operations.deletedRanges, jobs[i].durationSec))
               /\ toManager' = Append(toManager,
                      Message("status", jobs[i].id, "Retrying without audio track..."))
          ELSE /\ jobs' = [jobs EXCEPT ![i].pc = "failed"]
               /\ toManager' = Append(toManager, Message("error", jobs[i].id, "exec failed"))
               /\ UNCHANGED currentTargetDurationSec
    /\ UNCHANGED <<isProcessing, workerExportId, toWorker, managerVars, editVars, thumbVars>>

\* The retry of ffmpeg.exec settles.
WorkerRetry(i) ==
    /\ jobs[i].pc = "retry"
    /\ \E ok \in BOOLEAN :
          IF ok
          THEN /\ jobs' = [jobs EXCEPT ![i].pc = "read", ![i].execs[2].ok = TRUE]
               /\ UNCHANGED toManager
          ELSE /\ jobs' = [jobs EXCEPT ![i].pc = "failed"]
               /\ toManager' = Append(toManager, Message("error", jobs[i].id, "exec failed"))
    /\ UNCHANGED <<isProcessing, workerExportId, currentTargetDurationSec, toWorker,
                   managerVars, editVars, thumbVars>>

\* processWithFFmpeg after readFile: 'complete', then the final progress.
WorkerComplete(i) ==
    /\ jobs[i].pc = "read"
    /\ jobs' = [jobs EXCEPT ![i].pc = "done"]
    /\ toManager' = toManager \o <<Message("complete", jobs[i].id, ""),
                                   Message("progress", jobs[i].id, "Done")>>
    /\ UNCHANGED <<isProcessing, workerExportId, currentTargetDurationSec, toWorker,
                   managerVars, editVars, thumbVars>>

\* The 'log' and 'progress' handlers of the encoder run for a report of the
\* encoder run of job i; they tag it with the worker's currentExportId.
EncoderReports(i) ==
    /\ jobs[i].pc \in {"exec", "retry"}
    /\ workerExportId # 0
    /\ Cardinality({k \in 1 .. Len(toManager) : toManager[k].message = "Encoding..."})
          < MaxReports
    /\ \E type \in {"status", "progress"} :
          toManager' = Append(toManager, Message(type, workerExportId, "Encoding..."))
    /\ UNCHANGED <<toWorker, managerVars, workerVars, editVars, thumbVars>>

WorkerStep ==
    \/ WorkerExport
    \/ WorkerCleanup
    \/ \E i \in 1 .. Len(jobs) : WorkerPrepare(i)
    \/ \E i \in 1 .. Len(jobs) : WorkerBuild(i)
    \/ \E i \in 1 .. Len(jobs) : WorkerExec(i)
    \/ \E i \in 1 .. Len(jobs) : WorkerRetry(i)
    \/ \E i \in 1 .. Len(jobs) : WorkerComplete(i)
    \/ \E i \in 1 .. Len(jobs) : EncoderReports(i)

\* Export sessions: media is loaded and edited, the manager and the worker
\* have just been constructed.
ExportRangeLists == {l \in RangeLists({30, Duration}) : l # <<>>}

InitExport ==
    /\ duration = Duration
    /\ deletedRanges \in ExportRangeLists
    /\ selection = <<0, 30>>
    /\ isLooping = FALSE
    /\ Idle
    /\ Stopped
    /\ ServiceInitialized
    /\ NoExport

\* The descriptor getCurrentOperations builds has no deletedRanges, so a job
\* of the composed system never enters the retry.
NextExport ==
    \/ ExportVideo
    \/ CancelExport
    \/ Deliver
    \/ WorkerExport
    \/ WorkerCleanup
    \/ \E i \in 1 .. Len(jobs) : WorkerPrepare(i)
    \/ \E i \in 1 .. Len(jobs) : WorkerBuild(i)
    \/ \E i \in 1 .. Len(jobs) : WorkerExec(i)
    \/ \E i \in 1 .. Len(jobs) : WorkerComplete(i)
    \/ \E i \in 1 .. Len(jobs) : EncoderReports(i)
    \/ ExpandMarker /\ UNCHANGED <<steps, exportVars, thumbVars>>
    \/ CollapseMarker /\ UNCHANGED <<steps, exportVars, thumbVars>>

SpecExport == InitExport /\ [][NextExport]_vars

\* The manager on its own: the workers are any source of messages.
InitManager ==
    /\ duration \in {0, Duration}
    /\ deletedRanges = <<>>
    /\ selection \in (IF duration = 0 THEN {<<>>} ELSE {<<>>, <<0, 30>>})
    /\ isLooping = FALSE
    /\ Idle
    /\ Stopped
    /\ ServiceInitialized
    /\ NoExport

NextManager ==
    \/ ExportVideo
    \/ CancelExport
    \/ Receive

SpecManager == InitManager /\ [][NextManager]_vars

\* The worker on its own: one export request with any descriptor is waiting
\* in its inbox, with or without a cleanup request behind it.
EntryPoints == {0, 50, Duration + 50}

RECURSIVE EntryLists(_)
EntryLists(n) ==
    IF n = 0 THEN {<<>>}
    ELSE LET shorter == EntryLists(n - 1) IN
         shorter \cup {Append(l, Entry(s, e)) : l \in shorter, s \in EntryPoints,
                                                e \in EntryPoints}

WorkerDurations == {-1, 30, Duration}

InitWorker ==
    /\ duration = 0
    /\ deletedRanges = <<>>
    /\ selection = <<>>
    /\ isLooping = FALSE
    /\ Idle
    /\ Stopped
    /\ ServiceInitialized
    /\ currentExportId = 0
    /\ isExporting = FALSE
    /\ callbacks = 0
    /\ exportCount = 0
    /\ \E deleted \in EntryLists(MaxEntries) : \E d \in WorkerDurations :
          \E cleanup \in BOOLEAN :
             toWorker = <<Request("export", 1, Operations(<<>>, deleted), d)>>
                        \o (IF cleanup
                            THEN <<Request("cleanup", 0, Operations(<<>>, <<>>), -1)>>
                            ELSE <<>>)
    /\ toManager = <<>>
    /\ jobs = <<>>
    /\ isProcessing = FALSE
    /\ workerExportId = 0
    /\ currentTargetDurationSec = 0
    /\ cancelled = {}
    /\ completed = {}
    /\ event = NoEvent

SpecWorker == InitWorker /\ [][WorkerStep]_vars

\* The worker with an export request of any content in its inbox: cut and
\* crop present or absent, any list of deleted ranges, durationSec supplied
\* or not, either kind of preset.
WorkerCuts == {<<>>, <<0, 30>>}

WorkerPresets == {"medium", "copy"}

InitCommand ==
    /\ duration = 0
    /\ deletedRanges = <<>>
    /\ selection = <<>>
    /\ isLooping = FALSE
    /\ Idle
    /\ Stopped
    /\ ServiceInitialized
    /\ currentExportId = 0
    /\ isExporting = FALSE
    /\ callbacks = 0
    /\ exportCount = 0
    /\ \E cut \in WorkerCuts, crop \in BOOLEAN, preset \in WorkerPresets :
          \E deleted \in EntryLists(MaxEntries) : \E d \in WorkerDurations :
             toWorker = <<PresetRequest("export", 1, Descriptor(cut, deleted, crop),
                                        d, preset)>>
    /\ toManager = <<>>
    /\ jobs = <<>>
    /\ isProcessing = FALSE
    /\ workerExportId = 0
    /\ currentTargetDurationSec = 0
    /\ cancelled = {}
    /\ completed = {}
    /\ event = NoEvent

\* The worker works off that request; no cleanup request follows it.
NextCommand ==
    \/ WorkerExport
    \/ \E i \in 1 .. Len(jobs) : WorkerPrepare(i)
    \/ \E i \in 1 .. Len(jobs) : WorkerBuild(i)
    \/ \E i \in 1 .. Len(jobs) : WorkerExec(i)
    \/ \E i \in 1 .. Len(jobs) : WorkerRetry(i)
    \/ \E i \in 1 .. Len(jobs) : WorkerComplete(i)
    \/ \E i \in 1 .. Len(jobs) : EncoderReports(i)

SpecCommand == InitCommand /\ [][NextCommand]_vars

----------------------------------------------------------------------------
(* Properties of the deleted-range list *)

\* C1: after every completed deleted-range mutation the list is sorted by
\* start and each range starts strictly after the end of the one before it.
SortedAndDisjoint ==
    \A i \in 1 .. Len(deletedRanges) - 1 :
        /\ deletedRanges[i].start <= deletedRanges[i + 1].start
        /\ deletedRanges[i + 1].start > deletedRanges[i].end

\* C1 case: a deleted-edge drag has run the dragged range into its neighbour
\* and the two were merged during the drag: the gesture still holds the index
\* of the second range although one range is left.
MergedWhileResizing ==
    /\ isResizing
    /\ resizingDeleted
    /\ resizeDeletedIndex = 1
    /\ Len(deletedRanges) = 1
    /\ SortedAndDisjoint

\* C2: every deleted range satisfies 0 <= start < end <= duration.
RangesWithinMedia ==
    \A i \in 1 .. Len(deletedRanges) :
        /\ 0 <= deletedRanges[i].start
        /\ deletedRanges[i].start < deletedRanges[i].end
        /\ deletedRanges[i].end <= duration

Instants(s, e) == {k \in -DeletedMinDur .. Duration + DeletedMinDur : s <= k /\ k < e}

\* The ranges of a list that overlap or touch [s, e].
Touching(ranges, s, e) ==
    {i \in 1 .. Len(ranges) : ranges[i].start <= e /\ ranges[i].end >= s}

Least(S) == CHOOSE x \in S : \A y \in S : x <= y

Greatest(S) == CHOOSE x \in S : \A y \in S : x >= y

\* C8: after addDeletedRange(s, e) on a normalized list the deleted instants
\* are the previous ones united with [s, e], and the ranges that overlap or
\* touch [s, e] are represented by one range that ends at the maximum of
\* their ends; the other ranges are kept.
AddUnitesAndMerges ==
    lastEdit.op = "add" =>
        LET old == lastEdit.before
            T == Touching(old, lastEdit.s, lastEdit.e)
            lo == Least({lastEdit.s} \cup {old[i].start : i \in T})
            hi == Greatest({lastEdit.e} \cup {old[i].end : i \in T})
        IN /\ Cells(deletedRanges) = Cells(old) \cup Instants(lastEdit.s, lastEdit.e)
           /\ \E j \in 1 .. Len(deletedRanges) :
                 deletedRanges[j].start = lo /\ deletedRanges[j].end = hi
           /\ Len(deletedRanges) = Len(old) - Cardinality(T) + 1
           /\ \A i \in (1 .. Len(old)) \ T :
                 \E j \in 1 .. Len(deletedRanges) : deletedRanges[j] = old[i]

\* C8 case: the added interval starts where an existing range ends and the
\* two became one range.
AddedAdjacent ==
    /\ lastEdit.op = "add"
    /\ lastEdit.s < lastEdit.e
    /\ \E i \in 1 .. Len(lastEdit.before) : lastEdit.before[i].end = lastEdit.s
    /\ Len(deletedRanges) = Len(lastEdit.before)
    /\ \E j \in 1 .. Len(deletedRanges) : deletedRanges[j].end = lastEdit.e

\* The ranges handed to normalization that lie within r.
SourcesOf(r) ==
    {i \in 1 .. Len(lastEdit.sources) :
        /\ lastEdit.sources[i].end > lastEdit.sources[i].start
        /\ r.start <= lastEdit.sources[i].start
        /\ lastEdit.sources[i].end <= r.end}

\* C9: a range produced by normalization is expanded if and only if every
\* source range merged into it was expanded.
ExpandedIffAllSources ==
    lastEdit.op \in {"add", "resize"} =>
        \A j \in 1 .. Len(deletedRanges) :
            deletedRanges[j].expanded <=>
                \A i \in SourcesOf(deletedRanges[j]) : lastEdit.sources[i].expanded

\* C9 case: a collapsed deletion was added touching or overlapping an
\* expanded range and the merged range is collapsed.
CollapsedByAddition ==
    /\ lastEdit.op = "add"
    /\ \E i \in Touching(lastEdit.before, lastEdit.s, lastEdit.e) :
          /\ lastEdit.before[i].expanded
          /\ \E j \in 1 .. Len(deletedRanges) :
                /\ deletedRanges[j].start <= lastEdit.before[i].start
                /\ deletedRanges[j].end >= lastEdit.e
                /\ ~deletedRanges[j].expanded

\* C10: after restoreDeletedInRange(s, e) with s < e no instant of (s, e) is
\* deleted and every instant outside [s, e] is deleted exactly if it was
\* deleted before.
RestoreClearsInterval ==
    lastEdit.op = "restore" =>
        Cells(deletedRanges) =
            Cells(lastEdit.before) \ Instants(Min(lastEdit.s, lastEdit.e),
                                              Max(lastEdit.s, lastEdit.e))

\* C10 case: the restored interval lay strictly inside a deleted range, which
\* was split in two.
RestoredBySplitting ==
    /\ lastEdit.op = "restore"
    /\ lastEdit.s < lastEdit.e
    /\ \E i \in 1 .. Len(lastEdit.before) :
          /\ lastEdit.before[i].start < lastEdit.s
          /\ lastEdit.before[i].end > lastEdit.e
    /\ Len(deletedRanges) = Len(lastEdit.before) + 1

----------------------------------------------------------------------------
(* Properties of the playback guard, stated on the record of the last tick *)

SeeksBy(who) == SelectSeq(tick.seeks, LAMBDA c : c.by = who)

InsideDeleted(t) == {i \in 1 .. Len(tick.ranges) :
                        tick.ranges[i].start <= t /\ t < tick.ranges[i].end}

\* C3: on a tick with playThroughDeleted unset and t in [start, end) of a
\* deleted range, the guard commands a seek to a target >= that range's end
\* that is inside no deleted range, and no position inside a deleted range is
\* shown after the tick.
SkipLandsOutsideDeleted ==
    (tick.ran /\ ~tick.flag) =>
        \A i \in InsideDeleted(tick.t) :
            /\ Len(SeeksBy("deleted")) = 1
            /\ SeeksBy("deleted")[1].to >= tick.ranges[i].end
            /\ InsideDeleted(SeeksBy("deleted")[1].to) = {}
            /\ InsideDeleted(tick.final) = {}

\* C4: the deleted-range skip is evaluated before the selection-boundary
\* check, and the selection-boundary decision of a tick is not overridden by a
\* seek computed from the position read at the start of the tick.
SelectionDecisionStands ==
    (tick.ran /\ Len(SeeksBy("selection")) > 0) =>
        /\ tick.seeks[Len(tick.seeks)].by = "selection"
        /\ tick.final = seekTo(SeeksBy("selection")[1].to, duration)

\* C5: while playThroughDeleted is set and t is inside a deleted range no skip
\* is commanded, and a tick that finds t outside every deleted range leaves
\* the flag clear, so ranges entered later are skipped.
PlayThroughEndsOutside ==
    (tick.ran /\ tick.flag) =>
        IF InsideDeleted(tick.t) # {}
        THEN SeeksBy("deleted") = <<>>
        ELSE ~tick.flagAfter

\* C6: on a tick while playing with a selection and t >= selection.end - 5 ms
\* the guard seeks to selection.start and does not pause when looping, and
\* pauses and seeks to max(selection.start, selection.end - 300 ms) otherwise;
\* below that boundary it neither pauses nor seeks for the selection.
SelectionBoundaryRule ==
    (tick.ran /\ tick.playing /\ tick.sel # <<>>) =>
        IF tick.t >= tick.sel[2] - BoundaryEpsilon
        THEN IF tick.looping
             THEN /\ SeeksBy("selection") = <<Command("selection", tick.sel[1])>>
                  /\ ~tick.paused
                  /\ ~videoPaused
             ELSE /\ SeeksBy("selection") =
                        <<Command("selection", Max(tick.sel[1], tick.sel[2] - SeekBack))>>
                  /\ tick.paused
                  /\ videoPaused
        ELSE /\ SeeksBy("selection") = <<>>
             /\ ~tick.paused
             /\ ~videoPaused

\* C6 case: a tick exactly at selection.end - 5 ms without looping paused the
\* video and sought 300 ms back from the selection end.
PausedAtSelectionEnd ==
    /\ tick.ran
    /\ tick.playing
    /\ tick.sel # <<>>
    /\ ~tick.looping
    /\ tick.t = tick.sel[2] - BoundaryEpsilon
    /\ tick.sel[2] - SeekBack > tick.sel[1]
    /\ videoPaused
    /\ tick.seeks # <<>>
    /\ tick.seeks[1] = Command("selection", tick.sel[2] - SeekBack)

\* C7: a single tick never commands two seeks.
OneSeekPerTick == Len(tick.seeks) <= 1

----------------------------------------------------------------------------
(* Further properties of restore, normalization and the mapping *)

\* C11: when restoreDeletedInRange(s, e) splits a deleted range that strictly
\* contains [s, e], each of the two resulting ranges carries the expanded flag
\* of the original range.
SplitKeepsExpanded ==
    lastEdit.op = "restore" =>
        \A i \in 1 .. Len(lastEdit.before) :
            LET r == lastEdit.before[i] IN
            (r.start < lastEdit.s /\ r.end > lastEdit.e) =>
                /\ \E j \in 1 .. Len(deletedRanges) :
                      deletedRanges[j] = Range(r.start, lastEdit.s, r.expanded)
                /\ \E j \in 1 .. Len(deletedRanges) :
                      deletedRanges[j] = Range(lastEdit.e, r.end, r.expanded)

\* C12: deleting [a, b] and then restoring exactly [a, b] yields the same
\* getVisibleRanges() as before the deletion, whatever the list held before.
DeleteRestoreInverse ==
    [][(/\ RestoreSelection
        /\ lastEdit.op = "add"
        /\ lastEdit.s = selection[1]
        /\ lastEdit.e = selection[2])
       => getVisibleRanges(deletedRanges', duration)
            = getVisibleRanges(lastEdit.before, duration)]_vars

\* C13: normalizeDeletedRanges is idempotent: it leaves the stored, already
\* normalized list unchanged (starts, ends, flags, order), and applied twice
\* to the list of the last mutation it gives what it gives applied once.
NormalizeIdempotent ==
    /\ normalizeDeletedRanges(deletedRanges) = deletedRanges
    /\ LET once == normalizeDeletedRanges(lastEdit.sources)
       IN normalizeDeletedRanges(once) = once

\* C13 case: the last mutation handed normalization a list that was not
\* normalized (two ranges were merged or reordered) and the result is stored.
NormalizedUnsortedList ==
    /\ lastEdit.op \in {"add", "resize"}
    /\ normalizeDeletedRanges(lastEdit.sources) # lastEdit.sources
    /\ Len(lastEdit.sources) >= 2
    /\ deletedRanges = normalizeDeletedRanges(lastEdit.sources)

\* C14: a deletion stores its interval clamped into [0, duration] and leaves
\* the deleted-range list unchanged when the clamped width is <= 0.
AddClampsToMedia ==
    [][(DeleteSelection /\ duration > 0) =>
          LET s == clamp(selection[1], 0, duration)
              e == clamp(selection[2], 0, duration)
          IN IF e - s <= 0
             THEN deletedRanges' = deletedRanges
             ELSE /\ Cells(deletedRanges') = Cells(deletedRanges) \cup Instants(s, e)
                  /\ \E j \in 1 .. Len(deletedRanges') :
                        /\ deletedRanges'[j].start <= s
                        /\ deletedRanges'[j].end >= e]_vars

\* C14 case: the deleted selection reached beyond the end of the media and
\* was stored up to the duration only.
AddedClampedToDuration ==
    /\ lastEdit.op = "add"
    /\ selection # <<>>
    /\ selection[2] > duration
    /\ lastEdit.e = duration
    /\ \E j \in 1 .. Len(deletedRanges) : deletedRanges[j].end = duration
    /\ \A j \in 1 .. Len(deletedRanges) : deletedRanges[j].end <= duration

Visible == getVisibleRanges(deletedRanges, duration)

Collapsed == SelectSeq(deletedRanges, LAMBDA r : ~r.expanded)

RoundTrip(vis, t) ==
    LET pct == PercentOf(vis, t)
    IN <<TimeOfPercent(vis, duration, pct[1], pct[2]), pct[2]>>

RoundTrips(vis, t) ==
    LET back == RoundTrip(vis, t) IN back[1] = t * back[2]

\* The times of a visible segment the round trip is tried on: both
\* boundaries, their neighbours and the middle.
Samples(seg) ==
    {t \in {seg.start, seg.start + 1, (seg.start + seg.end) \div 2, seg.end - 1, seg.end} :
        seg.start <= t /\ t <= seg.end}

\* C16: for every time t inside a visible segment, boundaries included, the
\* collapsed percent of t maps back to t.
RoundTripOnVisible ==
    LET vis == Visible IN
    \A i \in 1 .. Len(vis) : \A t \in Samples(vis[i]) : RoundTrips(vis, t)

\* A visible segment that begins right after a collapsed deleted range: its
\* start shares its collapsed position with the end of the segment before.
FollowsCollapsed(vis, i) == i > 1 /\ vis[i - 1].end < vis[i].start

\* C16 as it holds: the round trip returns t for every t inside a visible
\* segment except the start of a segment that follows a collapsed deleted
\* range, which maps back to the end of the segment before that range.
RoundTripOffCollapsedEdge ==
    LET vis == Visible IN
    \A i \in 1 .. Len(vis) : \A t \in Samples(vis[i]) :
        LET back == RoundTrip(vis, t) IN
        IF FollowsCollapsed(vis, i) /\ t = vis[i].start
        THEN back[1] = vis[i - 1].end * back[2]
        ELSE back[1] = t * back[2]

\* C16 case: after an edit a kept segment follows a collapsed deleted range
\* and an expanded deleted range is visible too.
RoundTripAcrossCollapsed ==
    LET vis == Visible IN
    /\ lastEdit.op # "none"
    /\ \E i \in 1 .. Len(vis) : FollowsCollapsed(vis, i) /\ RoundTrips(vis, vis[i].end)
    /\ \E i \in 1 .. Len(vis) : vis[i].deleted /\ RoundTrips(vis, vis[i].start + 1)

----------------------------------------------------------------------------
(* Properties of the selection, media loads and gestures *)

\* C17: whenever a selection is present it satisfies
\* 0 <= start < end <= duration.
SelectionWithinMedia ==
    selection # <<>> =>
        /\ 0 <= selection[1]
        /\ selection[1] < selection[2]
        /\ selection[2] <= duration

\* C18: loading a file over an existing one resets the model: afterwards the
\* deleted-range list is empty, no selection is present and
\* playThroughDeleted is false.
ReloadResetsModel ==
    [][ReloadMedia =>
          /\ deletedRanges' = <<>>
          /\ selection' = <<>>
          /\ ~playThroughDeleted']_vars

\* C19: whenever a pointer-up is handled while a gesture is active the
\* controller is Idle afterwards, for every pointer position and every
\* timeline width, a width of 0 included.
PointerUpEndsGesture ==
    [][PointerUp =>
          /\ ~isDragging'
          /\ ~isSelecting'
          /\ ~isResizing'
          /\ resizeHandle' = "none"]_vars

\* C20: at most one gesture is active at any time: isDragging and isResizing
\* are never both true.
OneGestureActive == ~(isDragging /\ isResizing)

----------------------------------------------------------------------------
(* Properties of selection creation, deleted-edge resizing and thumbnail   *)
(* generation during gestures                                              *)

\* C21: a pointer-up that ends a creation drag (pressed outside the selection
\* and outside every handle) sets the selection to the dragged interval if and
\* only if some pointer-move of the drag was more than DragThreshold pixels
\* away from the pressed pixel and the interval is at least
\* MinSelectionDuration long; otherwise it leaves the selection as it was.
CreationCommitRule ==
    [][\A x \in 0 .. RectWidth :
          (isDragging /\ ~isResizing /\ press.x >= 0 /\ selectionAnchor # <<>>
             /\ handlePointerUp(x, RectWidth)) =>
             LET endTime == RoundDiv(x * duration, RectWidth)
                 startSec == Min(selectionAnchor[1], endTime)
                 endSec == Max(selectionAnchor[1], endTime)
             IN IF press.moved /\ endSec - startSec >= MinSelectionDuration
                THEN selection' = setSelection(clamp(startSec, 0, duration),
                                               clamp(endSec, 0, duration))
                ELSE selection' = selection]_vars

\* C22: every in-place edit of a deleted-edge resize gesture, on pointer-move
\* and on pointer-up, changes the start or end of no range other than the one
\* whose edge was hit at pointer-down, as long as that range is in the list
\* (other ranges change only by being merged with it in the normalization
\* that follows), and the list stored by the pointer-up is normalized.
ResizeEditsHitRange ==
    [][(/\ lastEdit'.op = "resize"
        /\ \E j \in 1 .. Len(lastEdit'.before) :
              <<lastEdit'.before[j].start, lastEdit'.before[j].end>> = press.target) =>
          /\ \A i \in 1 .. Len(lastEdit'.before) :
                (\/ lastEdit'.before[i].start # lastEdit'.sources[i].start
                 \/ lastEdit'.before[i].end # lastEdit'.sources[i].end)
                   => <<lastEdit'.before[i].start, lastEdit'.before[i].end>> = press.target
          /\ (~isResizing' => deletedRanges' = normalizeDeletedRanges(deletedRanges'))]_vars

\* C23: thumbnail generation is paused in every state in which a drag or a
\* resize gesture is active, and every pointer-up that ends a gesture leaves
\* generation running again.
GenerationPausedDuringGesture ==
    /\ [](isDragging \/ isResizing => generationPaused)
    /\ [][PointerUp => ~generationPaused']_vars


----------------------------------------------------------------------------
(* Properties of the export manager and the FFmpeg worker.                 *)

\* C24: exportVideo called while an export is in progress is rejected with an
\* error and leaves currentExportId, isExporting and the callbacks as they
\* were, starts no job and sends nothing to the worker.
ExportRejectedWhileExporting ==
    [][(isExporting /\ event'.op = "exportVideo") =>
          /\ event'.threw
          /\ UNCHANGED <<currentExportId, isExporting, callbacks, exportCount, toWorker>>]_vars

\* An export was requested while another one was in progress.
ExportRejectedWhileExportingWitness ==
    /\ event.op = "exportVideo"
    /\ event.threw
    /\ isExporting
    /\ currentExportId # 0
    /\ duration > 0

\* C25: a message whose id is not the id of the current export, a message
\* without id included, invokes no callback and leaves isExporting alone.
UnmatchedMessagesDiscarded ==
    [][(/\ event'.op = "message"
        /\ (event'.msg.id = 0 \/ event'.msg.id # currentExportId)) =>
          /\ event'.invoked = 0
          /\ UNCHANGED isExporting]_vars

\* C26: a message tagged with the id of a cancelled export invokes no callback
\* and changes neither isExporting nor currentExportId, whether or not another
\* export has been started since.
CancelledMessagesDiscarded ==
    [][(event'.op = "message" /\ event'.msg.id \in cancelled) =>
          /\ event'.invoked = 0
          /\ UNCHANGED <<isExporting, currentExportId>>]_vars

\* A 'complete' of a cancelled export arrived while a later export was in
\* progress.
CancelledMessagesDiscardedWitness ==
    /\ event.op = "message"
    /\ event.msg.type = "complete"
    /\ event.msg.id \in cancelled
    /\ isExporting
    /\ currentExportId # 0
    /\ callbacks = currentExportId

\* The messages of the given type and id the worker has posted.
Posted(type, id) ==
    Cardinality({k \in 1 .. Len(toManager) :
                    toManager[k].type = type /\ toManager[k].id = id})

\* C27: a job whose combined audio+video skip filter failed makes exactly one
\* more encoder run, with the video-only filter over the same windows; a job
\* that finished has posted one 'complete' and no 'error', a job that failed
\* (the retry failed too, or there were no deleted ranges to retry with) has
\* posted one 'error' tagged with its id and no 'complete'.
RetryOnceThenReport ==
    \A i \in 1 .. Len(jobs) :
       LET job == jobs[i]
           n == Len(job.execs)
           deleted == job.operations.deletedRanges
       IN /\ n <= 2
          /\ (n = 2 =>
                /\ deleted # <<>>
                /\ ~job.execs[1].ok
                /\ job.execs[1].filter.withAudio
                /\ ~job.execs[2].filter.withAudio
                /\ job.execs[2].filter.windows = job.execs[1].filter.windows)
          /\ (/\ n >= 1
              /\ ~job.execs[1].ok
              /\ job.pc \notin {"exec"}
              /\ deleted # <<>>) => n = 2
          /\ (n >= 1 /\ deleted = <<>>) => n = 1
          /\ job.pc = "done" =>
                /\ job.execs[n].ok
                /\ Posted("complete", job.id) = 1
                /\ Posted("error", job.id) = 0
          /\ job.pc = "failed" =>
                /\ Posted("error", job.id) = 1
                /\ Posted("complete", job.id) = 0
                /\ \A k \in 1 .. n : ~job.execs[k].ok
          /\ job.pc \notin {"done", "failed"} =>
                /\ Posted("error", job.id) = 0
                /\ Posted("complete", job.id) = 0

\* The combined filter failed, the video-only retry succeeded and the job
\* reported 'complete'.
RetrySucceeded ==
    \E i \in 1 .. Len(jobs) :
       /\ Len(jobs[i].execs) = 2
       /\ jobs[i].execs[2].ok
       /\ jobs[i].execs[2].filter.windows # <<>>
       /\ jobs[i].pc = "done"
       /\ Posted("complete", jobs[i].id) = 1

\* The descriptor entries of a list of timeline ranges.
RECURSIVE EntriesOf(_)
EntriesOf(dr) ==
    IF dr = <<>> THEN <<>>
    ELSE <<Entry(Head(dr).start, Head(dr).end)>> \o EntriesOf(Tail(dr))

\* C28: the descriptor sent with an export request has one deletedRanges
\* entry { startSec, endSec } for every deleted range of the timeline,
\* expanded or collapsed.
DescriptorListsDeletedRanges ==
    [][(/\ Len(toWorker') > Len(toWorker)
        /\ toWorker'[Len(toWorker')].type = "export") =>
          toWorker'[Len(toWorker')].operations.deletedRanges = EntriesOf(deletedRanges)]_vars

\* The length of the part of [0, d] that the entries cover.
Covered(deleted, d) ==
    Cardinality({t \in 0 .. d - 1 :
                    \E i \in 1 .. Len(deleted) :
                       deleted[i].startSec <= t /\ t < deleted[i].endSec})

\* C29: the kept segments computeKeptFromDeleted returns for a duration and a
\* list of deleted ranges are ordered and disjoint, lie inside [0, duration]
\* and have a total length of duration minus the length of the deleted part
\* of [0, duration]; that total is the target of the progress reports.
KeptIsComplement ==
    \A i \in 1 .. Len(jobs) :
       LET job == jobs[i]
           deleted == job.operations.deletedRanges
           d == job.durationSec
           kept == job.kept
       IN (job.pc \notin {"load", "write"} /\ deleted # <<>> /\ d >= 0) =>
             /\ \A k \in 1 .. Len(kept) :
                   /\ 0 <= kept[k].s
                   /\ kept[k].s < kept[k].e
                   /\ kept[k].e <= d
                   /\ k < Len(kept) => kept[k].e <= kept[k + 1].s
             /\ KeptTotal(kept) = d - Covered(deleted, d)
             /\ currentTargetDurationSec = KeptTotal(kept)

\* The timeline ranges of a descriptor list.
RECURSIVE RangesOf(_)
RangesOf(deleted) ==
    IF deleted = <<>> THEN <<>>
    ELSE <<Range(Head(deleted).startSec, Head(deleted).endSec, FALSE)>>
         \o RangesOf(Tail(deleted))

\* The descriptor lists a timeline of the media can produce: normalized
\* ranges inside [0, Duration].
FromTimeline(deleted) ==
    /\ \A i \in 1 .. Len(deleted) :
          /\ 0 <= deleted[i].startSec
          /\ deleted[i].startSec < deleted[i].endSec
          /\ deleted[i].endSec <= Duration
    /\ \A i \in 1 .. Len(deleted) - 1 : deleted[i].endSec < deleted[i + 1].startSec

\* C30: for the deleted ranges of a timeline, the select expression of
\* buildSkipFilter keeps an instant t of [0, duration] exactly when
\* isTimeInDeletedRange reports t as not deleted.
ExportKeepsWhatPlaybackKeeps ==
    \A i \in 1 .. Len(jobs) :
       LET job == jobs[i]
           deleted == job.operations.deletedRanges
       IN (job.execs # <<>> /\ deleted # <<>> /\ FromTimeline(deleted)) =>
             \A t \in 0 .. Duration :
                Selects(job.execs[1].filter, t) <=> ~isTimeInDeletedRange(RangesOf(deleted), t)

----------------------------------------------------------------------------
(* Properties of the collapsed mapping, the hit tests and the queries      *)

\* The instants of a collapsed range the mapping is tried on.
InsideSamples(r) ==
    {t \in {r.start, r.start + 1, (r.start + r.end) \div 2, r.end - 1} :
        r.start <= t /\ t < r.end}

\* The width of the visible segments that end at or before time b.
RECURSIVE WidthBefore(_, _)
WidthBefore(vis, b) ==
    IF vis = <<>> THEN 0
    ELSE (IF Head(vis).end <= b THEN Head(vis).end - Head(vis).start ELSE 0)
         + WidthBefore(Tail(vis), b)

\* C31: every instant inside a collapsed deleted range has the collapsed
\* percent of the visible-segment boundary before the range, so all instants
\* of the range share one percent.
CollapsedRangeIsOnePoint ==
    LET vis == getVisibleRanges(deletedRanges, duration)
        total == SumWidths(vis)
    IN \A i \in 1 .. Len(deletedRanges) :
          ~deletedRanges[i].expanded =>
             \A t \in InsideSamples(deletedRanges[i]) :
                LET pct == getCollapsedPercentForTime(deletedRanges, duration, t)
                IN IF total <= 0 THEN pct[1] = 0
                   ELSE /\ pct[2] = total
                        /\ pct[1] = WidthBefore(vis, deletedRanges[i].start)

\* After an edit a collapsed range lies between two visible segments, away
\* from the start of the strip.
CollapsedBetweenVisible ==
    LET vis == getVisibleRanges(deletedRanges, duration) IN
    /\ lastEdit.op # "none"
    /\ \E i \in 1 .. Len(deletedRanges) :
          /\ ~deletedRanges[i].expanded
          /\ deletedRanges[i].end - deletedRanges[i].start >= 2
          /\ \E j \in 1 .. Len(vis) : vis[j].end = deletedRanges[i].start
          /\ \E j \in 1 .. Len(vis) : vis[j].start = deletedRanges[i].end

\* C34: while the deleted ranges lie inside the media, getCollapsedDuration()
\* plus the widths of the collapsed deleted ranges is the duration, and no
\* visible segment overlaps a collapsed deleted range.
CollapsedDurationIsRest ==
    (duration > 0 /\ RangesWithinMedia) =>
        LET vis == getVisibleRanges(deletedRanges, duration)
            hidden == SelectSeq(deletedRanges, LAMBDA r : ~r.expanded)
        IN /\ getCollapsedDuration(deletedRanges, duration) + SumWidths(hidden) = duration
           /\ \A i \in 1 .. Len(vis) : \A j \in 1 .. Len(hidden) :
                 vis[i].end <= hidden[j].start \/ hidden[j].end <= vis[i].start

\* After an edit the strip shows a kept segment and an expanded deleted range
\* and hides a collapsed one.
HiddenAndShownRanges ==
    LET vis == getVisibleRanges(deletedRanges, duration) IN
    /\ lastEdit.op # "none"
    /\ duration > 0
    /\ RangesWithinMedia
    /\ \E i \in 1 .. Len(vis) : vis[i].deleted
    /\ \E i \in 1 .. Len(vis) : ~vis[i].deleted
    /\ \E i \in 1 .. Len(deletedRanges) : ~deletedRanges[i].expanded
    /\ getCollapsedDuration(deletedRanges, duration) < duration

\* Pixel x lies in the hot-zone of the handle drawn for time t.
InHotZone(vis, t, x, w) == 2 * Abs(x - HandleX(vis, t, w)) <= ResizeHandleWidth

\* C32: an accepted pointer-down applies the hit tests in the order
\* (a) selection edge, (b) edge of an expanded deleted range, (c) inside the
\* selection, (d) elsewhere, and the first that matches decides alone what the
\* press starts: (a) a selection resize and no drag, (b) a resize of an
\* expanded deleted range and no drag, (c) a seek and no gesture, (d) a seek
\* and a potential selection drag and no resize.  (The first three conjuncts
\* of the premise follow from handlePointerDown; they only tell the steps of
\* other handlers apart early.)
HitTestOrder ==
    [][\A x \in 0 .. RectWidth :
          (/\ lastEdit' = NoEdit
           /\ selection' = selection
           /\ isSelecting' = isSelecting
           /\ handlePointerDown(x, RectWidth)) =>
             LET vis == getVisibleRanges(deletedRanges, duration)
                 clickTime == PointerTime(vis, duration, x, RectWidth)
                 a == /\ selection # <<>>
                      /\ \/ InHotZone(vis, selection[1], x, RectWidth)
                         \/ InHotZone(vis, selection[2], x, RectWidth)
                 b == \E i \in 1 .. Len(deletedRanges) :
                         /\ deletedRanges[i].expanded
                         /\ \/ InHotZone(vis, deletedRanges[i].start, x, RectWidth)
                            \/ InHotZone(vis, deletedRanges[i].end, x, RectWidth)
                 c == /\ selection # <<>>
                      /\ selection[1] <= clickTime
                      /\ clickTime <= selection[2]
             IN IF a
                THEN /\ isResizing' /\ ~resizingDeleted'
                     /\ UNCHANGED <<isDragging, selectionAnchor>>
                     /\ resizeHandle' \in {"start", "end"}
                     /\ videoTime' = videoTime
                ELSE IF b
                THEN /\ isResizing' /\ resizingDeleted'
                     /\ UNCHANGED <<isDragging, selectionAnchor>>
                     /\ resizeDeletedIndex' \in 0 .. Len(deletedRanges') - 1
                     /\ deletedRanges'[resizeDeletedIndex' + 1].expanded
                     /\ InHotZone(vis, IF resizeHandle' = "start"
                                       THEN deletedRanges'[resizeDeletedIndex' + 1].start
                                       ELSE deletedRanges'[resizeDeletedIndex' + 1].end,
                                  x, RectWidth)
                     /\ videoTime' = videoTime
                ELSE IF c
                THEN /\ UNCHANGED <<isDragging, selectionAnchor, isResizing,
                                    resizingDeleted, resizeHandle, resizeDeletedIndex>>
                     /\ videoTime' = clamp(clickTime, 0, duration)
                ELSE /\ isDragging'
                     /\ selectionAnchor' = <<clickTime>>
                     /\ UNCHANGED <<isResizing, resizingDeleted, resizeHandle,
                                    resizeDeletedIndex>>
                     /\ videoTime' = clamp(clickTime, 0, duration)]_vars

\* A press on the edge of an expanded deleted range that lies inside the
\* selection started a deleted-edge resize, although a collapsed range is on
\* the strip too.
ResizeOfExpandedInsideSelection ==
    /\ isResizing
    /\ resizingDeleted
    /\ ~isDragging
    /\ selection # <<>>
    /\ resizeDeletedIndex \in 0 .. Len(deletedRanges) - 1
    /\ deletedRanges[resizeDeletedIndex + 1].expanded
    /\ selection[1] <= deletedRanges[resizeDeletedIndex + 1].start
    /\ deletedRanges[resizeDeletedIndex + 1].end <= selection[2]
    /\ \E i \in 1 .. Len(deletedRanges) : ~deletedRanges[i].expanded

\* C33: the queries getKeptRanges, getVisibleRanges and the mappings built on
\* them leave the deleted-range list as it is: in every state between two
\* handlers, and in the middle of a deleted-edge drag, where the list after
\* the overlays were redrawn is the list the in-place edit produced.
QueriesLeaveListAlone ==
    /\ [](RenderDeleted(deletedRanges, duration) = deletedRanges)
    /\ [][(lastEdit'.op = "resize" /\ isResizing') =>
             deletedRanges' = lastEdit'.sources]_vars

\* C35: a creation drag committed on pointer-up sets the selection that a
\* pointer-move at the same pixel previews: its edges are the anchor time and
\* the time under the pointer by the collapsed mapping of pointer-down and
\* pointer-move.
CommitMatchesPreview ==
    [][\A x \in 0 .. RectWidth :
          (/\ isDragging /\ ~isResizing /\ isSelecting /\ selectionAnchor # <<>>
           /\ handlePointerUp(x, RectWidth)
           /\ selection' # selection) =>
             LET vis == getVisibleRanges(deletedRanges, duration)
                 currentTime == PointerTime(vis, duration, x, RectWidth)
                 startSec == Min(selectionAnchor[1], currentTime)
                 endSec == Max(selectionAnchor[1], currentTime)
             IN selection' = setSelection(clamp(startSec, 0, duration),
                                          clamp(endSec, 0, duration))]_vars

----------------------------------------------------------------------------
(* ThumbnailService: the queue of thumbnails to capture and the loops that *)
(* work it off *)

MaxCount == 2
MaxCalls == 3

\* One processQueue invocation that entered its loop: where it waits, the
\* item it holds, what it took and delivered, and whether pauseGeneration
\* returned while it was in flight.
Loop(pc, item, taken, delivered, paused) ==
    [pc |-> pc, item |-> item, taken |-> taken, delivered |-> delivered,
     paused |-> paused]

\* this.abortController?.signal.aborted, read when the loop evaluates it.
signalAborted == abortController \in aborted

\* processQueue up to its first await: nothing happens while a loop is
\* marked as running or the queue is empty; otherwise the loop is entered,
\* and it shifts an item unless the signal is aborted.
processQueue(queue) ==
    IF serviceIsProcessing \/ queue = <<>>
    THEN /\ seekQueue' = queue
         /\ UNCHANGED <<serviceIsProcessing, loops>>
    ELSE IF signalAborted
    THEN /\ seekQueue' = queue
         /\ serviceIsProcessing' = FALSE
         /\ loops' = Append(loops, Loop("done", 0, 0, 0, FALSE))
    ELSE /\ seekQueue' = Tail(queue)
         /\ serviceIsProcessing' = TRUE
         /\ loops' = Append(loops, Loop("capture", Head(queue), 1, 0, FALSE))

\* generateThumbnails(duration, count, onProgress)
GenerateThumbnails ==
    /\ calls < MaxCalls
    /\ calls' = calls + 1
    /\ \E count \in 1 .. MaxCount :
          processQueue([i \in 1 .. count |-> i])
    /\ UNCHANGED <<abortController, aborted>>
    /\ UNCHANGED <<editVars, exportVars>>

\* pauseGeneration(): the controller is aborted and replaced by a new one.
PauseGeneration ==
    /\ calls < MaxCalls
    /\ calls' = calls + 1
    /\ aborted' = aborted \cup {abortController}
    /\ abortController' = abortController + 1
    /\ serviceIsProcessing' = FALSE
    /\ loops' = [i \in 1 .. Len(loops) |->
                   IF loops[i].pc = "done" THEN loops[i]
                   ELSE [loops[i] EXCEPT !.paused = TRUE]]
    /\ UNCHANGED seekQueue
    /\ UNCHANGED <<editVars, exportVars>>

\* resumeGeneration(onProgress)
ResumeGeneration ==
    /\ calls < MaxCalls
    /\ calls' = calls + 1
    /\ IF seekQueue # <<>>
       THEN processQueue(seekQueue)
       ELSE UNCHANGED <<seekQueue, serviceIsProcessing, loops>>
    /\ UNCHANGED <<abortController, aborted>>
    /\ UNCHANGED <<editVars, exportVars>>

\* A loop's `await captureThumbnail` settles, with a thumbnail or with null:
\* a thumbnail is cached and handed to onProgress unless the signal is
\* aborted; the loop then waits for the next frame.
LoopCaptured(i) ==
    /\ loops[i].pc = "capture"
    /\ \E thumbnail \in BOOLEAN :
          loops' = [loops EXCEPT ![i].pc = "frame",
                                 ![i].delivered =
                                     IF thumbnail /\ ~signalAborted
                                     THEN @ + 1 ELSE @]
    /\ UNCHANGED <<seekQueue, serviceIsProcessing, abortController, aborted, calls>>
    /\ UNCHANGED <<editVars, exportVars>>

\* A loop's `await waitForNextFrame` settles: the while condition is
\* evaluated again; the loop shifts the next item or ends.
LoopNextFrame(i) ==
    /\ loops[i].pc = "frame"
    /\ IF seekQueue # <<>> /\ ~signalAborted
       THEN /\ seekQueue' = Tail(seekQueue)
            /\ loops' = [loops EXCEPT ![i].pc = "capture",
                                      ![i].item = Head(seekQueue),
                                      ![i].taken = @ + 1]
            /\ UNCHANGED serviceIsProcessing
       ELSE /\ loops' = [loops EXCEPT ![i].pc = "done"]
            /\ serviceIsProcessing' = FALSE
            /\ UNCHANGED seekQueue
    /\ UNCHANGED <<abortController, aborted, calls>>
    /\ UNCHANGED <<editVars, exportVars>>

NextThumbnails ==
    \/ GenerateThumbnails
    \/ PauseGeneration
    \/ ResumeGeneration
    \/ \E i \in 1 .. Len(loops) : LoopCaptured(i)
    \/ \E i \in 1 .. Len(loops) : LoopNextFrame(i)

SpecThumbnails == InitConstructed /\ [][NextThumbnails]_vars

\* C38: once pauseGeneration has returned, a processQueue loop that was in
\* flight hands no further thumbnail to onProgress and takes no further item
\* from seekQueue; and at most one loop that no pause has stopped is working
\* the queue at any time.
PauseStopsLoops ==
    /\ [][\A i \in 1 .. Len(loops) :
             loops[i].paused =>
                /\ loops'[i].delivered = loops[i].delivered
                /\ loops'[i].taken = loops[i].taken]_vars
    /\ [](Cardinality({i \in 1 .. Len(loops) :
                          loops[i].pc # "done" /\ ~loops[i].paused}) <= 1)

\* C36: every progress and status message the worker posts carries the id of
\* the job whose processing produced it, whether the job posts it itself or
\* the encoder reports it during the job's encoder run, also while another
\* export request has been received in the meantime.
ReportsTaggedWithProducer ==
    [][\A i \in 1 .. Len(jobs) :
          (\/ WorkerPrepare(i)
           \/ WorkerBuild(i)
           \/ WorkerExec(i)
           \/ WorkerComplete(i)
           \/ EncoderReports(i)) =>
             \A k \in Len(toManager) + 1 .. Len(toManager') :
                toManager'[k].type \in {"progress", "status"} =>
                   toManager'[k].id = jobs[i].id]_vars

\* C37: once the completion callback of an export has run, no progress,
\* status or error callback of that export is invoked any more.
CompleteIsLastCallback ==
    [][(/\ Deliver
        /\ event'.invoked # 0
        /\ event'.msg.type \in {"progress", "status", "error"}) =>
          event'.invoked \notin completed]_vars

\* The options with the given name in an argument list.
Options(args, opt) == {k \in 1 .. Len(args) : args[k].opt = opt}

\* C39: the encoder command of a request with deleted ranges together with a
\* cut and/or a crop applies all of them: it has the skip filter of the
\* deleted ranges, the trim of the cut ("-ss" start, "-t" length) when there
\* is a cut, and the crop filter when there is a crop.
CommandAppliesAllEdits ==
    \A i \in 1 .. Len(jobs) :
       LET job == jobs[i]
           ops == job.operations
           args == job.args
       IN (/\ Len(job.execs) = 1
           /\ Len(ops.deletedRanges) > 0
           /\ (hasCut(ops) \/ hasCrop(ops))) =>
             /\ \E k \in Options(args, "-filter_complex") :
                   args[k].val = buildSkipFilter(ops.deletedRanges)
             /\ hasCut(ops) =>
                   /\ \E k \in Options(args, "-ss") : args[k].val = ops.cut[1]
                   /\ \E k \in Options(args, "-t") : args[k].val = ops.cut[2] - ops.cut[1]
             /\ hasCrop(ops) =>
                   \E k \in Options(args, "-vf") :
                      \E n \in 1 .. Len(args[k].val) : args[k].val[n] = "crop"

\* C40: every encoder argument list processWithFFmpeg builds names the input
\* file exactly once and the output file exactly once, whatever the request
\* holds.
CommandNamesFilesOnce ==
    \A i \in 1 .. Len(jobs) :
       LET args == jobs[i].args IN
       jobs[i].execs # <<>> =>
          /\ Cardinality({k \in Options(args, "-i") : args[k].val = inputName}) = 1
          /\ Cardinality({k \in Options(args, "") : args[k].val = outputName}) = 1

====
